---- MODULE Spec2Model ----
(***************************************************************************)
(* Model of the tui-meshcore session layer: identity seed persistence      *)
(* (identity.py), the simulated radio (mock_radio.py), the MeshService     *)
(* lifecycle, its contact directory and packet handling (mesh_service.py), *)
(* and the application's channel and contact handlers (app.py) over the    *)
(* persistent store (database.py) and the configuration (config.py).       *)
(*                                                                         *)
(* start() contains no await, so no other task runs while it executes; its *)
(* statements are nevertheless separate steps of the model (pc) so that    *)
(* the order of its effects and the states of the seed file in between can *)
(* be observed.  stop() suspends once, at "await self._node_task".  The    *)
(* join and leave handlers are split in the same way, so that the states   *)
(* of the files between their statements can be observed.                  *)
(*                                                                         *)
(* The specifications share the variables: Spec (the session driven by a   *)
(* client, over one configuration) and SpecStop (the same under the        *)
(* fairness of the event loop), SpecChannels (the application from         *)
(* launch, over the configurations and channel tables it can find),        *)
(* SpecCrash (joins and leaves over launches, some cut short by a crash),  *)
(* SpecContacts (a running engine delivering packets and events),          *)
(* SpecPackets (on_packet with the packets it is given, over launches of   *)
(* the process), SpecBridge (on_packet beside the engine's own events)     *)
(* and SpecRadio (a MockRadio driven on its own).                          *)
(***************************************************************************)
EXTENDS Naturals, Integers, Sequences, FiniteSets, TLC

VARIABLES
    umask,          \* process umask (environment, fixed)
    pymc,           \* availability of pymc_core: "absent" | "identity_only" | "full"
    is_mock,        \* ConfigManager.is_mock
    seedFile,       \* the identity seed file on disk
    pc,             \* position of the client call in progress, "idle" when none
    seed,           \* local variable seed of start() / load_or_create_seed()
    app,            \* MeshService._app is set
    identity,       \* MeshService.identity (None or the identity of a seed)
    radio,          \* MeshService.radio
    event_service,  \* MeshService._event_service is set
    node,           \* MeshService.node
    nodeTask,       \* state of the task MeshService._node_task
    cancelReq,      \* cancellation requested of _node_task and not yet delivered
    online,         \* MeshService.online
    orphanTasks,    \* live run-loop tasks no longer referenced by _node_task
    orphanTraffic,  \* live traffic tasks of radios no longer referenced
    posted,         \* MeshEvents posted to the application, in order
    raised,         \* exception raised by the last client call, "none" when none
    lastSend,       \* result of the last send_* call since start()
    sendInvoked,    \* the last send_* call called the engine
    stops,          \* stop() calls completed since the last start(), up to MaxStops
    starts,         \* number of start() calls
    spawned,        \* number of run-loop tasks created
    crashes,        \* number of exceptions that escaped an engine run loop
    seedsReturned,  \* the seeds load_or_create_seed has returned
    seedWrites,     \* number of times save_seed has written the seed file
    reports,        \* what the application read after each start()
    mounted,        \* the application has loaded its configuration (on_mount)
    store,          \* rows of the channels table of the persistent store
    cfg,            \* ConfigManager._data["channels"], the runtime configuration
    cfgFile,        \* the configuration file on disk
    channel_db,     \* channels held by the adapter of MeshService.node
    derived,        \* the calls of derive_channel_secret made, with their results
    op,             \* the last join or leave and the state it started from
    contact_rows,   \* rows of the contacts table, most recently seen first
    contact_db,     \* MeshService._contact_db, the in-memory contact directory
    insert_order,   \* node ids of the contacts table in the order of their INSERT
    last_pkt,       \* the packet on_packet was last called with
    last_event,     \* the event the bridge's handle_event was last called with
    engineSend,     \* the calls of the engine's send by the last send_* call
    tx_log,         \* MockRadio._tx_log
    tx_call,        \* the send() call of the radio: "none" | "sleeping" | "ok"
    enqueued,       \* every packet put into MockRadio._rx_queue, in order
    rx_got,         \* what the wait_for_rx calls have returned, in order
    rx_wait         \* the wait_for_rx call: "none" | "get" | "sleep"

vars == <<umask, pymc, is_mock, seedFile, pc, seed, app, identity, radio,
          event_service, node, nodeTask, cancelReq, online, orphanTasks,
          orphanTraffic, posted, raised, lastSend, sendInvoked, stops,
          starts, spawned, crashes, seedsReturned, seedWrites, reports,
          mounted, store, cfg, cfgFile, channel_db, derived, op,
          contact_rows, contact_db, insert_order, last_pkt, last_event,
          engineSend,
          tx_log, tx_call, enqueued, rx_got, rx_wait>>

envVars == <<umask, pymc, is_mock>>
histVars == <<starts, spawned, crashes, seedsReturned, seedWrites, reports>>
chanVars == <<mounted, store, cfg, cfgFile, channel_db, derived, op>>
contactVars == <<contact_rows, contact_db>>
pktVars == <<insert_order, last_pkt, last_event>>
radioVars == <<tx_log, tx_call, enqueued, rx_got, rx_wait>>
extVars == <<chanVars, contactVars, pktVars, engineSend, radioVars>>

----------------------------------------------------------------------------
(* Bounds *)

MaxStarts == 2      \* start() calls in one behaviour
MaxQueue == 2       \* packets held in a simulated radio's receive queue
NumSeeds == 2       \* distinct values a generated seed can take
MaxStops == 2       \* the count of consecutive stop() calls saturates here

(* Program constants *)

SeedLen == 32           \* bytes of an identity seed
OwnerOnly == 384        \* 0o600
FileCreateMode == 438   \* 0o666, the mode write_bytes asks of open()

Umasks == {18, 63}      \* 0o022 and 0o077
BadLens == {0, 16, 33}

None == 0
SeedVals == 1..NumSeeds

----------------------------------------------------------------------------
(* File modes *)

RECURSIVE AndNot(_, _)
\* a & ~m on naturals, bit by bit
AndNot(a, m) ==
    IF a = 0 THEN 0
    ELSE (IF (a % 2 = 1) /\ (m % 2 = 0) THEN 1 ELSE 0) + 2 * AndNot(a \div 2, m \div 2)

\* the mode of a file created by open(path, "wb") under umask u
CreatedMode(u) == AndNot(FileCreateMode, u)

AbsentFile == [exists |-> FALSE, len |-> 0, val |-> None, mode |-> 0]

----------------------------------------------------------------------------
(* identity.py *)

generate_seed == {[len |-> SeedLen, val |-> v] : v \in SeedVals}

write_bytes(f, s) ==
    [exists |-> TRUE, len |-> s.len, val |-> s.val,
     mode |-> IF f.exists THEN f.mode ELSE CreatedMode(umask)]

chmod(f, m) == [f EXCEPT !.mode = m]

path_exists_never(f) == FALSE

path_exists(f) == f.exists

load_seed_unchecked(f) == [ok |-> TRUE, seed |-> [len |-> f.len, val |-> f.val]]

\* load_seed: the bytes of the file, or ValueError when they are not 32
load_seed(f) ==
    IF f.len # SeedLen
        THEN [ok |-> FALSE, seed |-> [len |-> f.len, val |-> f.val]]
        ELSE [ok |-> TRUE, seed |-> [len |-> f.len, val |-> f.val]]

\* create_local_identity: None when pymc_core cannot be imported
create_local_identity(s) == IF pymc = "absent" THEN None ELSE s.val

----------------------------------------------------------------------------
(* mock_radio.py *)

NoRadio ==
    [kind |-> "none", gen |-> 0, fake_traffic |-> FALSE, running |-> FALSE,
     traffic_task |-> FALSE, rx |-> <<>>]

RealRadio(g) ==
    [kind |-> "real", gen |-> g, fake_traffic |-> FALSE, running |-> TRUE,
     traffic_task |-> FALSE, rx |-> <<>>]

MockRadio(ft, g) ==
    [kind |-> "mock", gen |-> g, fake_traffic |-> ft, running |-> FALSE,
     traffic_task |-> FALSE, rx |-> <<>>]

begin(r) == [r EXCEPT !.running = TRUE]

start_fake_traffic(r) ==
    IF r.fake_traffic /\ ~r.traffic_task THEN [r EXCEPT !.traffic_task = TRUE] ELSE r

stop_fake_traffic_keeps(r) == r

stop_fake_traffic(r) ==
    IF r.traffic_task THEN [r EXCEPT !.traffic_task = FALSE] ELSE r

isMockRadio(r) == r.kind = "mock"

FallbackRadio_traffic(g) == start_fake_traffic(begin(MockRadio(TRUE, g)))

\* the radio start() installs when the real radio cannot be initialised
FallbackRadio(g) == begin(MockRadio(FALSE, g))

----------------------------------------------------------------------------
(* Events and observations *)

SystemError(cause) == [type |-> "system.error", error |-> cause]

NoNode == [exists |-> FALSE, radioGen |-> 0]

AliveTask(t) == t \in {"pending", "running"}
FinishedTask(t) == t \in {"done", "cancelled", "failed"}

\* how the radio in use came about: "mock", "real" or "fallback"
RadioOutcome(r) ==
    IF r.kind = "real" THEN "real"
    ELSE IF r.fake_traffic THEN "mock" ELSE "fallback"

\* the online flag on_screen_ready reads once start() has returned, with how
\* the radio and the engine steps of that start() ended
Report(outcome, on) ==
    [radio |-> RadioOutcome(radio), engine |-> outcome, online |-> on]

\* no send_* call has called the engine
NoEngineSend == [calls |-> 0, outcome |-> "none"]

\* other tasks run only while no client call is between two of its statements
Scheduling == pc \in {"idle", "stop_await"}

----------------------------------------------------------------------------
InitService ==
    /\ pc = "idle"
    /\ seed = [len |-> 0, val |-> None]
    /\ app = FALSE
    /\ identity = None
    /\ event_service = FALSE
    /\ node = NoNode
    /\ nodeTask = "none"
    /\ cancelReq = FALSE
    /\ online = FALSE
    /\ orphanTasks = 0
    /\ orphanTraffic = 0
    /\ posted = <<>>
    /\ raised = "none"
    /\ lastSend = "none"
    /\ sendInvoked = FALSE
    /\ engineSend = NoEngineSend
    /\ stops = 0
    /\ starts = 0
    /\ spawned = 0
    /\ crashes = 0
    /\ seedsReturned = {}
    /\ seedWrites = 0
    /\ reports = {}

\* a radio not driven on its own: nothing sent, put or awaited by a harness
InitRadioLogs ==
    /\ tx_log = <<>>
    /\ tx_call = "none"
    /\ enqueued = <<>>
    /\ rx_got = <<>>
    /\ rx_wait = "none"

InitSession ==
    /\ InitService
    /\ radio = NoRadio
    /\ InitRadioLogs

----------------------------------------------------------------------------
(* Channels: screens/dialogs.py, database.py, config.py, ChannelDBAdapter *)

NumChans == 2       \* distinct channel names
NumPsks == 1        \* distinct pre-shared keys a user types

Public == 1                 \* the channel name "Public"; 2..NumChans are others
ChanNames == 1..NumChans    \* channel names, in the order the store sorts them
HexDigestLen == 64          \* characters of sha256(...).hexdigest()
SecretLen == 32             \* characters derive_channel_secret keeps

\* secrets are texts: what they were made from, and their length
NullSecret == [alg |-> "none", of |-> 0, len |-> 0]         \* None, SQL NULL
EmptySecret == [alg |-> "text", of |-> 0, len |-> 0]        \* ""
Psk(k) == [alg |-> "text", of |-> k, len |-> k]             \* typed by the user
Literal(n) == [alg |-> "literal", of |-> n, len |-> SecretLen]
sha256_hexdigest(n) == [alg |-> "sha256", of |-> n, len |-> HexDigestLen]
Prefix(t, n) == [t EXCEPT !.len = IF @ < n THEN @ ELSE n]
Truthy(t) == t.len > 0

WELL_KNOWN_SECRETS == [n \in {Public} |-> Literal(n)]

derive_channel_secret_hash_only(name) == Prefix(sha256_hexdigest(name), SecretLen)

derive_channel_secret(name) ==
    IF name \in DOMAIN WELL_KNOWN_SECRETS
      THEN WELL_KNOWN_SECRETS[name]
      ELSE Prefix(sha256_hexdigest(name), SecretLen)

Derivation(name) == [name |-> name, secret |-> derive_channel_secret(name)]

\* DatabaseManager: the channels table, name UNIQUE
ChannelRow(name, secret, is_private) ==
    [name |-> name, secret |-> secret, is_private |-> is_private]

add_channel_replace(rows, name, secret, is_private) ==
    {r \in rows : r.name # name} \cup {ChannelRow(name, secret, is_private)}

\* INSERT OR IGNORE INTO channels
add_channel(rows, name, secret, is_private) ==
    IF \E r \in rows : r.name = name
      THEN rows
      ELSE rows \cup {ChannelRow(name, secret, is_private)}

remove_channel(rows, name) == {r \in rows : r.name # name}

RECURSIVE get_channels(_)
get_channels(rows) ==
    IF rows = {} THEN <<>>
    ELSE LET first == CHOOSE r \in rows : \A q \in rows : r.name <= q.name
         IN  <<first>> \o get_channels(rows \ {first})

\* ConfigManager: an entry of the channels list; an entry without a secret
\* or a bare name reads as secret None
ChannelEntry(name, secret) == [name |-> name, secret |-> secret]

NoConfigFile == [state |-> "absent", channels |-> <<>>]
TruncatedFile == [state |-> "truncated", channels |-> <<>>]
SavedFile(channels) == [state |-> "saved", channels |-> channels]

config_load(f) == f.channels

\* _refresh_sidebar: an empty channels table is filled from the configuration
RECURSIVE bootstrap_rows(_, _)
bootstrap_rows(rows, entries) ==
    IF entries = <<>> THEN rows
    ELSE bootstrap_rows(add_channel(rows, Head(entries).name,
                                    Head(entries).secret, FALSE),
                        Tail(entries))

refresh_sidebar(rows, entries) ==
    IF rows = {} THEN bootstrap_rows(rows, entries) ELSE rows

\* _sync_channels_to_config: cfg_channels, and the derivations it asks for
cfg_channels_raw(rows) ==
    [i \in 1..Len(get_channels(rows)) |->
       ChannelEntry(get_channels(rows)[i].name, get_channels(rows)[i].secret)]

cfg_channels(rows) ==
    [i \in 1..Len(get_channels(rows)) |->
       LET ch == get_channels(rows)[i]
       IN  ChannelEntry(ch.name, IF Truthy(ch.secret) THEN ch.secret
                                 ELSE derive_channel_secret(ch.name))]

cfg_derivations(rows) == {Derivation(r.name) : r \in {q \in rows : ~Truthy(q.secret)}}

\* ChannelDBAdapter: a copy of the list it is given
ChannelDBAdapter_empty(channels) == <<>>
ChannelDBAdapter(channels) == channels

\* the last join or leave: what it was, whether its handler has returned, and
\* the state it started from
NoOp == [kind |-> "none", name |-> 0, done |-> FALSE, cfg |-> <<>>,
         file |-> NoConfigFile, adapter |-> <<>>, task |-> "none"]

\* configurations a process can find on disk: none, one written by a run of
\* this program, one cut short while it was being saved, or one whose
\* entries carry no secret or an empty one
PublicEntry == ChannelEntry(Public, derive_channel_secret(Public))
InitConfigs ==
    {NoConfigFile, TruncatedFile, SavedFile(<<PublicEntry>>)}
    \cup {SavedFile(<<PublicEntry, ChannelEntry(n, t)>>) :
            n \in ChanNames \ {Public}, t \in {NullSecret, EmptySecret}}

----------------------------------------------------------------------------
(* Contacts: database.py, ContactDBAdapter *)

\* a text is the sequence of its characters: 0..15 are the hexadecimal digits
\* (each its own value), NonHex..NonHex+2 are letters that are no digit
NonHex == 16
HexChars == 0..15
KeyPrefixLen == 16      \* c.public_key[:16]

NumKeys == 2            \* public keys that advertise
NumNames == 2           \* distinct non-empty display names
MaxPosted == 1          \* MeshEvents waiting for the application

EmptyText == <<>>
DisplayName(k) == <<NonHex + k>>
DisplayNames == {DisplayName(k) : k \in 1..NumNames}

\* keys of two bytes, "a301", "b002", "a303", "b004", ...: the first bytes
\* alternate between 0xA3 and 0xB0
PublicKey(k) == IF k % 2 = 1 THEN <<10, 3, 0, k>> ELSE <<11, 0, 0, k>>
PublicKeys == {PublicKey(k) : k \in 1..NumKeys}

\* source hashes of direct messages: 0xA3, 0xB0
Hashes == {163, 176}

\* the capital letters A..F are characters of their own: bytes.hex() writes
\* small letters, the format 02X capital ones, bytes.fromhex reads both
UpperLetter(d) == 2 * NonHex + d
UpperLetters == {UpperLetter(d) : d \in 10..15}
HexValue(c) ==
    IF c \in HexChars THEN c
    ELSE IF c \in UpperLetters THEN c - 2 * NonHex
    ELSE -1

\* bytes.fromhex: ValueError unless the text is pairs of hexadecimal digits
fromhex(t) ==
    IF Len(t) % 2 # 0 \/ \E i \in 1..Len(t) : HexValue(t[i]) < 0
      THEN [ok |-> FALSE, bytes |-> <<>>]
      ELSE [ok |-> TRUE,
            bytes |-> [i \in 1..(Len(t) \div 2) |->
                         16 * HexValue(t[2 * i - 1]) + HexValue(t[2 * i])]]

Take(t, n) == SubSeq(t, 1, IF Len(t) < n THEN Len(t) ELSE n)

\* a nullable column of the contacts table
Null == [null |-> TRUE, s |-> <<>>]
Col(t) == [null |-> FALSE, s |-> t]
TruthyCol(c) == ~c.null /\ c.s # <<>>
COALESCE(new, old) == IF new.null THEN old ELSE new

ContactRow(node_id, name, public_key) ==
    [node_id |-> node_id, name |-> name, public_key |-> public_key]

RowIndex(rows, node_id) ==
    IF \E i \in 1..Len(rows) : rows[i].node_id = node_id
      THEN CHOOSE i \in 1..Len(rows) : rows[i].node_id = node_id
      ELSE 0

Without(rows, i) == [j \in 1..(Len(rows) - 1) |-> IF j < i THEN rows[j] ELSE rows[j + 1]]

\* DatabaseManager.upsert_contact; the row becomes the most recently seen
upsert_contact(rows, node_id, name, public_key) ==
    LET i == RowIndex(rows, node_id)
    IN  IF i = 0
          THEN <<ContactRow(node_id, name, public_key)>> \o rows
          ELSE <<ContactRow(node_id, COALESCE(name, rows[i].name),
                            COALESCE(public_key, rows[i].public_key))>>
               \o Without(rows, i)

\* DatabaseManager.get_contacts: ORDER BY last_seen DESC
get_contacts(rows) == rows

\* the rows of a table keep the order of their INSERT (rowid): an upsert
\* that finds the node id updates the row in place, another appends one
NodeIds(rows) == [i \in 1..Len(rows) |-> rows[i].node_id]

Inserted(order, rows) ==
    LET new == {i \in 1..Len(rows) :
                  \A j \in 1..Len(order) : order[j] # rows[i].node_id}
    IN  IF new = {} THEN order
        ELSE Append(order, rows[CHOOSE i \in new : TRUE].node_id)

Contact(public_key, name) == [public_key |-> public_key, name |-> name]

\* ContactDBAdapter.refresh
RECURSIVE refresh(_)
refresh(rows) ==
    IF rows = <<>> THEN <<>>
    ELSE LET row == Head(rows)
         IN  (IF TruthyCol(row.public_key)
                THEN <<Contact(row.public_key.s,
                               IF TruthyCol(row.name) THEN row.name.s
                               ELSE row.node_id)>>
                ELSE <<>>)
             \o refresh(Tail(rows))

NoDirectory == [exists |-> FALSE, contacts |-> <<>>]
ContactDBAdapter(rows) == [exists |-> TRUE, contacts |-> refresh(get_contacts(rows))]


\* ContactDBAdapter.add_contact: the store, then the list
add_contact_always_appends(dir, public_key, name) ==
    [dir EXCEPT !.contacts = Append(@, Contact(public_key, name))]

add_contact(dir, public_key, name) ==
    IF \E i \in 1..Len(dir.contacts) : dir.contacts[i].public_key = public_key
      THEN dir
      ELSE [dir EXCEPT !.contacts = Append(@, Contact(public_key, name))]

Existing(dir, public_key) ==
    IF \E i \in 1..Len(dir.contacts) : dir.contacts[i].public_key = public_key
      THEN CHOOSE i \in 1..Len(dir.contacts) :
             /\ dir.contacts[i].public_key = public_key
             /\ \A j \in 1..(i - 1) : dir.contacts[j].public_key # public_key
      ELSE 0

ensure_contact_adds_only(dir, rows, public_key, name) ==
    IF ~dir.exists \/ Existing(dir, public_key) # 0
      THEN [dir |-> dir, rows |-> rows]
      ELSE [dir |-> add_contact(dir, public_key, name),
            rows |-> upsert_contact(rows, public_key, Col(name), Col(public_key))]

\* MeshService._ensure_contact: the directory and the rows it leaves
ensure_contact(dir, rows, public_key, name) ==
    IF ~dir.exists THEN [dir |-> dir, rows |-> rows]
    ELSE LET i == Existing(dir, public_key)
         IN  IF i = 0
               THEN [dir |-> add_contact(dir, public_key, name),
                     rows |-> upsert_contact(rows, public_key, Col(name),
                                             Col(public_key))]
               ELSE IF name # EmptyText /\ dir.contacts[i].name # name
                 THEN [dir |-> [dir EXCEPT !.contacts[i].name = name],
                       rows |-> upsert_contact(rows, public_key, Col(name),
                                               Col(public_key))]
                 ELSE [dir |-> dir, rows |-> rows]

\* texts _resolve_sender makes up: "?" and "unknown-" with the hash as two
\* hexadecimal digits
QuestionMark == <<NonHex + 10>>
UnknownDash == NonHex + 11
format_02x(h) == <<h \div 16, h % 16>>
format_02X(h) ==
    LET UpperDigit(d) == IF d < 10 THEN d ELSE UpperLetter(d)
    IN  <<UpperDigit(h \div 16), UpperDigit(h % 16)>>
Unknown(h) == <<UnknownDash>> \o format_02X(h)

Resolution(name, key) == [name |-> name, key |-> key]

FirstMatch_any(contacts, h) ==
    IF \E i \in 1..Len(contacts) : contacts[i].public_key # <<>>
      THEN CHOOSE i \in 1..Len(contacts) :
             /\ contacts[i].public_key # <<>>
             /\ \A j \in 1..(i - 1) : contacts[j].public_key = <<>>
      ELSE 0

\* the first contact of the list whose key is hexadecimal and starts with
\* the byte h; a key that is not hexadecimal is passed over
FirstMatch(contacts, h) ==
    LET Match(i) == /\ contacts[i].public_key # <<>>
                    /\ fromhex(contacts[i].public_key).ok
                    /\ fromhex(contacts[i].public_key).bytes[1] = h
    IN  IF \E i \in 1..Len(contacts) : Match(i)
          THEN CHOOSE i \in 1..Len(contacts) :
                 Match(i) /\ \A j \in 1..(i - 1) : ~Match(j)
          ELSE 0

\* MeshService._resolve_sender for a packet whose payload has payload_len
\* bytes, the second of them h
resolve_sender(dir, payload_len, h) ==
    IF ~dir.exists \/ payload_len < 2 THEN Resolution(QuestionMark, <<>>)
    ELSE LET i == FirstMatch(dir.contacts, h)
         IN  IF i = 0 THEN Resolution(Unknown(h), <<>>)
             ELSE LET c == dir.contacts[i]
                  IN  Resolution(IF c.name # <<>> THEN c.name
                                 ELSE Take(c.public_key, KeyPrefixLen),
                                 c.public_key)

\* MeshEvents other than system.error
ContactNew(public_key, name) ==
    [type |-> "mesh.contact.new", node_id |-> public_key, name |-> name,
     public_key |-> public_key]
NodeDiscoveredEvent(node_id, name) ==
    [type |-> "mesh.network.node_discovered", node_id |-> node_id, name |-> name]
MessageNew(sender_name, sender_id) ==
    [type |-> "mesh.message.new", sender_name |-> sender_name,
     sender_id |-> sender_id]

ChannelMessageNew == [type |-> "mesh.channel.message.new"]

\* no event
NoEvent == [type |-> "none"]

\* the event types on_packet posts itself
PACKET_HANDLED_EVENTS == {"mesh.message.new", "mesh.channel.message.new"}

\* Packets the dispatcher hands to on_packet.  An advertisement is short of
\* its header or has one (full), its application data decode or do not, and
\* the decoded data carry node_name, name, or neither; a text packet has a
\* decrypted text or none, and a payload of payload_len bytes, the second of
\* them the source hash h; a group text has decrypted data or none
NumSenders == 2         \* keys that advertise, all starting with 0xA3
MaxEvents == 2          \* MeshEvents waiting for the application

Senders == {PublicKey(2 * k - 1) : k \in 1..NumSenders}

Packet(kind, full, decodable, key, node_name, name, text, payload_len, h) ==
    [kind |-> kind, full |-> full, decodable |-> decodable, key |-> key,
     node_name |-> node_name, name |-> name, text |-> text,
     payload_len |-> payload_len, h |-> h]

NoPacket == Packet("none", FALSE, FALSE, <<>>, <<>>, <<>>, FALSE, 0, 0)
AdvertPacket(full, decodable, key, node_name, name) ==
    Packet("advert", full, decodable, key, node_name, name, FALSE, 0, 0)
TextPacket(text, payload_len, h) ==
    Packet("txt_msg", FALSE, FALSE, <<>>, <<>>, <<>>, text, payload_len, h)
GroupPacket(data) ==
    Packet("grp_txt", FALSE, FALSE, <<>>, <<>>, <<>>, data, 0, 0)
OtherPacket == Packet("other", FALSE, FALSE, <<>>, <<>>, <<>>, FALSE, 0, 0)

Packets ==
    {AdvertPacket(FALSE, FALSE, <<>>, <<>>, <<>>), OtherPacket}
    \cup {AdvertPacket(TRUE, FALSE, k, <<>>, <<>>) : k \in Senders}
    \cup {AdvertPacket(TRUE, TRUE, k, n, <<>>) :
            k \in Senders, n \in DisplayNames \cup {EmptyText}}
    \cup {AdvertPacket(TRUE, TRUE, k, <<>>, DisplayName(1)) : k \in Senders}
    \cup {TextPacket(FALSE, 2, 163), TextPacket(TRUE, 1, 0)}
    \cup {TextPacket(TRUE, 2, h) : h \in Hashes}
    \cup {GroupPacket(d) : d \in BOOLEAN}

\* decoded.get("node_name") or decoded.get("name") or ""
AdvertName(pkt) ==
    IF pkt.node_name # EmptyText THEN pkt.node_name
    ELSE IF pkt.name # EmptyText THEN pkt.name
    ELSE EmptyText

----------------------------------------------------------------------------
InitEnv ==
    /\ umask \in Umasks
    /\ pymc \in {"absent", "identity_only", "full"}
    /\ is_mock \in BOOLEAN
    /\ seedFile \in
         {AbsentFile}
         \cup {[exists |-> TRUE, len |-> SeedLen, val |-> v, mode |-> OwnerOnly] :
                 v \in SeedVals}
         \cup {[exists |-> TRUE, len |-> n, val |-> 1, mode |-> OwnerOnly] :
                 n \in BadLens}

\* a configuration written by onboarding, loaded; the channels table as
\* _refresh_sidebar left it
InitMounted ==
    /\ mounted = TRUE
    /\ cfgFile = SavedFile(<<PublicEntry>>)
    /\ cfg = config_load(cfgFile)
    /\ store = refresh_sidebar({ChannelRow(Public, PublicEntry.secret, FALSE)}, cfg)
    /\ channel_db = <<>>
    /\ derived = {}
    /\ op = NoOp

InitContacts ==
    /\ contact_rows = <<>>
    /\ contact_db = NoDirectory
    /\ insert_order = <<>>
    /\ last_pkt = NoPacket
    /\ last_event = NoEvent

Init ==
    /\ InitEnv
    /\ InitMounted
    /\ InitContacts
    /\ InitSession

----------------------------------------------------------------------------
(* MeshService.start *)

\* the client calls start(app)
Start ==
    /\ UNCHANGED <<chanVars, contactVars, pktVars, radioVars>>
    /\ engineSend' = NoEngineSend
    /\ mounted
    /\ pc = "idle"
    /\ starts < MaxStarts
    /\ app' = TRUE
    /\ pc' = "load_seed"
    /\ starts' = starts + 1
    /\ stops' = 0
    /\ raised' = "none"
    /\ lastSend' = "none"
    /\ sendInvoked' = FALSE
    /\ UNCHANGED <<envVars, seedFile, seed, identity, radio, event_service, node,
                   nodeTask, cancelReq, online, orphanTasks, orphanTraffic, posted,
                   spawned, crashes, seedsReturned, seedWrites, reports>>

\* seed = load_or_create_seed(IDENTITY_FILE), up to save_seed
LoadOrCreateSeed ==
    /\ UNCHANGED extVars
    /\ pc = "load_seed"
    /\ IF path_exists(seedFile)
         THEN LET r == load_seed(seedFile) IN
              IF r.ok
                THEN /\ seed' = r.seed
                     /\ seedsReturned' = seedsReturned \cup {r.seed}
                     /\ pc' = "identity"
                     /\ raised' = raised
                ELSE /\ raised' = "ValueError"
                     /\ pc' = "idle"
                     /\ UNCHANGED <<seed, seedsReturned, seedWrites>>
         ELSE /\ seed' \in generate_seed
              /\ pc' = "save_write"
              /\ UNCHANGED <<raised, seedsReturned, seedWrites>>
    /\ UNCHANGED <<envVars, seedFile, app, identity, radio, event_service, node,
                   nodeTask, cancelReq, online, orphanTasks, orphanTraffic, posted,
                   lastSend, sendInvoked, stops, starts, spawned, crashes, seedWrites,
                   reports>>

\* save_seed: path.write_bytes(seed)
SaveSeedWrite ==
    /\ UNCHANGED extVars
    /\ pc = "save_write"
    /\ seedFile' = write_bytes(seedFile, seed)
    /\ seedWrites' = seedWrites + 1
    /\ pc' = "save_chmod"
    /\ UNCHANGED <<envVars, seed, app, identity, radio, event_service, node,
                   nodeTask, cancelReq, online, orphanTasks, orphanTraffic, posted,
                   raised, lastSend, sendInvoked, stops, starts, spawned, crashes,
                   seedsReturned, reports>>

\* save_seed: os.chmod(path, 0o600), and load_or_create_seed returns
SaveSeedChmod ==
    /\ UNCHANGED extVars
    /\ pc = "save_chmod"
    /\ seedFile' = chmod(seedFile, OwnerOnly)
    /\ seedsReturned' = seedsReturned \cup {seed}
    /\ pc' = "identity"
    /\ UNCHANGED <<envVars, seed, app, identity, radio, event_service, node,
                   nodeTask, cancelReq, online, orphanTasks, orphanTraffic, posted,
                   raised, lastSend, sendInvoked, stops, starts, spawned, crashes,
                   seedWrites, reports>>

\* self.identity = create_local_identity(seed)
CreateIdentity ==
    /\ UNCHANGED extVars
    /\ pc = "identity"
    /\ identity' = create_local_identity(seed)
    /\ pc' = "radio"
    /\ UNCHANGED <<envVars, seedFile, seed, app, radio, event_service, node,
                   nodeTask, cancelReq, online, orphanTasks, orphanTraffic, posted,
                   raised, lastSend, sendInvoked, stops, histVars>>

\* step 2 of start(): the simulated radio with traffic, the real radio, or
\* the fallback when the real radio's construction or begin() throws
SelectRadio ==
    /\ UNCHANGED extVars
    /\ pc = "radio"
    /\ \/ /\ is_mock
          /\ radio' = start_fake_traffic(begin(MockRadio(TRUE, starts)))
          /\ posted' = posted
       \/ /\ ~is_mock
          /\ pymc # "absent"
          /\ radio' = RealRadio(starts)
          /\ posted' = posted
       \/ /\ ~is_mock
          /\ radio' = FallbackRadio(starts)
          /\ posted' = Append(posted, SystemError("radio"))
    /\ orphanTraffic' = orphanTraffic + (IF radio.traffic_task THEN 1 ELSE 0)
    /\ pc' = "events"
    /\ UNCHANGED <<envVars, seedFile, seed, app, identity, event_service, node,
                   nodeTask, cancelReq, online, orphanTasks, raised, lastSend,
                   sendInvoked, stops, histVars>>

\* step 3 of start(): the event service, when pymc_core provides it
StartEventService ==
    /\ UNCHANGED extVars
    /\ pc = "events"
    /\ event_service' = (event_service \/ pymc = "full")
    /\ pc' = "node"
    /\ UNCHANGED <<envVars, seedFile, seed, app, identity, radio, node, nodeTask,
                   cancelReq, online, orphanTasks, orphanTraffic, posted, raised,
                   lastSend, sendInvoked, stops, histVars>>

StartNodeSkipped_online(outcome) ==
    /\ online' = TRUE
    /\ reports' = reports \cup {Report(outcome, TRUE)}
    /\ UNCHANGED <<node, nodeTask, cancelReq, orphanTasks, posted, spawned,
                   channel_db, contact_db>>

\* start() creates no MeshNode: identity is None (line 202) or the import of
\* MeshNode fails (line 196); only a log line is written
StartNodeSkipped(outcome) ==
    /\ reports' = reports \cup {Report(outcome, online)}
    /\ UNCHANGED <<node, nodeTask, cancelReq, online, orphanTasks, posted, spawned,
                   channel_db, contact_db>>

\* step 4 of start(): the MeshNode and its run-loop task, and start() returns
StartNode ==
    /\ pc = "node"
    /\ pc' = "idle"
    /\ \/ /\ identity = None
          /\ StartNodeSkipped("no_identity")
       \/ /\ identity # None
          /\ pymc # "full"
          /\ StartNodeSkipped("import_error")
       \/ /\ identity # None
          /\ pymc = "full"
          /\ node' = [exists |-> TRUE, radioGen |-> radio.gen]
          /\ orphanTasks' = orphanTasks + (IF AliveTask(nodeTask) THEN 1 ELSE 0)
          /\ nodeTask' = "pending"
          /\ cancelReq' = FALSE
          /\ spawned' = spawned + 1
          /\ online' = TRUE
          /\ reports' = reports \cup {Report("ok", TRUE)}
          /\ posted' = posted
          /\ channel_db' = ChannelDBAdapter(cfg)
          /\ contact_db' = ContactDBAdapter(contact_rows)
       \/ /\ identity # None
          /\ pymc = "full"
          /\ posted' = Append(posted, SystemError("node"))
          /\ reports' = reports \cup {Report("error", online)}
          /\ contact_db' = ContactDBAdapter(contact_rows)
          /\ UNCHANGED <<node, nodeTask, cancelReq, online, orphanTasks, spawned,
                         channel_db>>
    /\ UNCHANGED <<envVars, seedFile, seed, app, identity, radio, event_service,
                   orphanTraffic, raised, lastSend, sendInvoked, stops, starts,
                   crashes, seedsReturned, seedWrites>>
    /\ UNCHANGED <<mounted, store, cfg, cfgFile, derived, op, contact_rows, pktVars, engineSend, radioVars>>

----------------------------------------------------------------------------
(* MeshService._run_node, as the task _node_task *)

\* the task's first step: a cancellation requested before it ever ran ends
\* it at once; otherwise it registers on_packet and awaits node.start()
RunNodeBegin ==
    /\ UNCHANGED extVars
    /\ Scheduling
    /\ nodeTask = "pending"
    /\ nodeTask' = (IF cancelReq THEN "cancelled" ELSE "running")
    /\ cancelReq' = FALSE
    /\ UNCHANGED <<envVars, seedFile, pc, seed, app, identity, radio,
                   event_service, node, online, orphanTasks, orphanTraffic, posted,
                   raised, lastSend, sendInvoked, stops, histVars>>

RunNodeCancelled_ignored ==
    /\ UNCHANGED extVars
    /\ Scheduling
    /\ nodeTask = "running"
    /\ cancelReq
    /\ cancelReq' = FALSE
    /\ UNCHANGED <<envVars, seedFile, pc, seed, app, identity, radio,
                   event_service, node, nodeTask, online, orphanTasks,
                   orphanTraffic, posted, raised, lastSend, sendInvoked, stops,
                   histVars>>

\* except asyncio.CancelledError: pass
RunNodeCancelled ==
    /\ UNCHANGED extVars
    /\ Scheduling
    /\ nodeTask = "running"
    /\ cancelReq
    /\ nodeTask' = "done"
    /\ cancelReq' = FALSE
    /\ UNCHANGED <<envVars, seedFile, pc, seed, app, identity, radio,
                   event_service, node, online, orphanTasks, orphanTraffic, posted,
                   raised, lastSend, sendInvoked, stops, histVars>>

RunNodeCrash_propagates ==
    /\ UNCHANGED extVars
    /\ Scheduling
    /\ nodeTask = "running"
    /\ ~cancelReq
    /\ nodeTask' = "failed"
    /\ crashes' = crashes + 1
    /\ UNCHANGED <<envVars, seedFile, pc, seed, app, identity, radio,
                   event_service, node, cancelReq, online, orphanTasks,
                   orphanTraffic, posted, raised, lastSend, sendInvoked, stops,
                   starts, spawned, seedsReturned, seedWrites, reports>>

\* except Exception: logger.exception(...); self.online = False
RunNodeCrash ==
    /\ UNCHANGED extVars
    /\ Scheduling
    /\ nodeTask = "running"
    /\ ~cancelReq
    /\ online' = FALSE
    /\ nodeTask' = "done"
    /\ crashes' = crashes + 1
    /\ UNCHANGED <<envVars, seedFile, pc, seed, app, identity, radio,
                   event_service, node, cancelReq, orphanTasks, orphanTraffic,
                   posted, raised, lastSend, sendInvoked, stops, starts, spawned,
                   seedsReturned, seedWrites, reports>>

\* node.start() returns: _run_node ends without touching online
RunNodeReturn ==
    /\ UNCHANGED extVars
    /\ Scheduling
    /\ nodeTask = "running"
    /\ ~cancelReq
    /\ nodeTask' = "done"
    /\ UNCHANGED <<envVars, seedFile, pc, seed, app, identity, radio,
                   event_service, node, cancelReq, online, orphanTasks,
                   orphanTraffic, posted, raised, lastSend, sendInvoked, stops,
                   histVars>>

\* the same handler in a run-loop task that a later start() replaced
OrphanCrash ==
    /\ UNCHANGED extVars
    /\ Scheduling
    /\ orphanTasks > 0
    /\ orphanTasks' = orphanTasks - 1
    /\ online' = FALSE
    /\ crashes' = crashes + 1
    /\ UNCHANGED <<envVars, seedFile, pc, seed, app, identity, radio,
                   event_service, node, nodeTask, cancelReq, orphanTraffic, posted,
                   raised, lastSend, sendInvoked, stops, starts, spawned,
                   seedsReturned, seedWrites, reports>>

OrphanReturn ==
    /\ UNCHANGED extVars
    /\ Scheduling
    /\ orphanTasks > 0
    /\ orphanTasks' = orphanTasks - 1
    /\ UNCHANGED <<envVars, seedFile, pc, seed, app, identity, radio,
                   event_service, node, nodeTask, cancelReq, online, orphanTraffic,
                   posted, raised, lastSend, sendInvoked, stops, histVars>>

----------------------------------------------------------------------------
(* MockRadio: the traffic task, inject_rx, wait_for_rx *)

\* _generate_traffic: one round of the loop of the radio in use
TimerEnqueue ==
    /\ UNCHANGED extVars
    /\ Scheduling
    /\ isMockRadio(radio)
    /\ radio.traffic_task
    /\ radio.running
    /\ Len(radio.rx) < MaxQueue
    /\ radio' = [radio EXCEPT !.rx = Append(@, "synthetic")]
    /\ UNCHANGED <<envVars, seedFile, pc, seed, app, identity, event_service, node,
                   nodeTask, cancelReq, online, orphanTasks, orphanTraffic, posted,
                   raised, lastSend, sendInvoked, stops, histVars>>

InjectRx ==
    /\ UNCHANGED extVars
    /\ Scheduling
    /\ isMockRadio(radio)
    /\ Len(radio.rx) < MaxQueue
    /\ radio' = [radio EXCEPT !.rx = Append(@, "injected")]
    /\ UNCHANGED <<envVars, seedFile, pc, seed, app, identity, event_service, node,
                   nodeTask, cancelReq, online, orphanTasks, orphanTraffic, posted,
                   raised, lastSend, sendInvoked, stops, histVars>>

\* the engine's run loop takes a packet from the radio it was built with
EngineRx ==
    /\ UNCHANGED extVars
    /\ Scheduling
    /\ nodeTask = "running"
    /\ ~cancelReq
    /\ isMockRadio(radio)
    /\ node.radioGen = radio.gen
    /\ radio.running
    /\ radio.rx # <<>>
    /\ radio' = [radio EXCEPT !.rx = Tail(@)]
    /\ UNCHANGED <<envVars, seedFile, pc, seed, app, identity, event_service, node,
                   nodeTask, cancelReq, online, orphanTasks, orphanTraffic, posted,
                   raised, lastSend, sendInvoked, stops, histVars>>

----------------------------------------------------------------------------
(* MockRadio driven on its own, as a test harness drives it: the packets   *)
(* are told apart, and what send and wait_for_rx return is recorded        *)

NumPayloads == 2        \* distinct packets
MaxPuts == 2            \* packets put into the receive queue
MaxTx == 2              \* packets sent
NoData == 0             \* b"", what wait_for_rx returns on a radio not running

Payloads == 1..NumPayloads

nonRadioVars == <<envVars, seedFile, pc, seed, app, identity, event_service,
                  node, nodeTask, cancelReq, online, orphanTasks, orphanTraffic,
                  posted, raised, lastSend, sendInvoked, stops, histVars,
                  chanVars, contactVars, pktVars, engineSend>>

\* asyncio.Queue() has no maxsize: put and put_nowait always append
put_nowait(r, d) == [r EXCEPT !.rx = Append(@, d)]

queue_get_last(q) == [item |-> q[Len(q)], rest |-> SubSeq(q, 1, Len(q) - 1)]

\* asyncio.Queue.get on a queue that is not empty
queue_get(q) == [item |-> Head(q), rest |-> Tail(q)]

tx_append_if_running(r, log, d) == IF r.running THEN Append(log, d) ELSE log

\* self._tx_log.append(data)
tx_append(r, log, d) == Append(log, d)

RadioBegin ==
    /\ isMockRadio(radio)
    /\ radio' = begin(radio)
    /\ UNCHANGED <<nonRadioVars, radioVars>>

\* MockRadio.sleep
RadioSleep ==
    /\ isMockRadio(radio)
    /\ radio' = [radio EXCEPT !.running = FALSE]
    /\ UNCHANGED <<nonRadioVars, radioVars>>

\* start_fake_traffic, called on a begun radio as start() does
StartFakeTraffic ==
    /\ isMockRadio(radio)
    /\ radio.running
    /\ radio' = start_fake_traffic(radio)
    /\ UNCHANGED <<nonRadioVars, radioVars>>

StopFakeTraffic ==
    /\ isMockRadio(radio)
    /\ radio' = stop_fake_traffic(radio)
    /\ UNCHANGED <<nonRadioVars, radioVars>>

\* _generate_traffic: one round of the loop, the packet 32 random bytes
TimerPut ==
    /\ isMockRadio(radio)
    /\ radio.traffic_task
    /\ radio.running
    /\ Len(enqueued) < MaxPuts
    /\ \E d \in Payloads :
         /\ radio' = put_nowait(radio, d)
         /\ enqueued' = Append(enqueued, d)
    /\ UNCHANGED <<nonRadioVars, tx_log, tx_call, rx_got, rx_wait>>

\* inject_rx(data), in any state of the radio
Inject ==
    /\ isMockRadio(radio)
    /\ Len(enqueued) < MaxPuts
    /\ \E d \in Payloads :
         /\ radio' = put_nowait(radio, d)
         /\ enqueued' = Append(enqueued, d)
    /\ UNCHANGED <<nonRadioVars, tx_log, tx_call, rx_got, rx_wait>>

\* wait_for_rx is called: on a radio not running it sleeps a second, on a
\* running one it awaits the queue
WaitForRxCall ==
    /\ isMockRadio(radio)
    /\ rx_wait = "none"
    /\ Len(rx_got) <= MaxPuts
    /\ rx_wait' = (IF radio.running THEN "get" ELSE "sleep")
    /\ UNCHANGED <<nonRadioVars, radio, tx_log, tx_call, enqueued, rx_got>>

\* wait_for_rx returns: b"" after the sleep, or what the queue gives once
\* it is not empty
WaitForRxReturn ==
    /\ \/ /\ rx_wait = "sleep"
          /\ rx_got' = Append(rx_got, NoData)
          /\ radio' = radio
       \/ /\ rx_wait = "get"
          /\ radio.rx # <<>>
          /\ rx_got' = Append(rx_got, queue_get(radio.rx).item)
          /\ radio' = [radio EXCEPT !.rx = queue_get(radio.rx).rest]
    /\ rx_wait' = "none"
    /\ UNCHANGED <<nonRadioVars, tx_log, tx_call, enqueued>>

\* send(data) up to its sleep
RadioSendData(d) ==
    /\ isMockRadio(radio)
    /\ tx_call # "sleeping"
    /\ Len(tx_log) < MaxTx
    /\ tx_log' = tx_append(radio, tx_log, d)
    /\ tx_call' = "sleeping"
    /\ UNCHANGED <<nonRadioVars, radio, enqueued, rx_got, rx_wait>>

RadioSend == \E d \in Payloads : RadioSendData(d)

\* send(data) after its sleep: return {"status": "ok"}
RadioSendReturn ==
    /\ tx_call = "sleeping"
    /\ tx_call' = "ok"
    /\ UNCHANGED <<nonRadioVars, radio, tx_log, enqueued, rx_got, rx_wait>>

----------------------------------------------------------------------------
(* MeshService.stop *)

\* what follows "await self._node_task" once the task has finished
StopTail ==
    /\ pc' = "idle"
    /\ IF nodeTask = "failed"
         THEN /\ raised' = "Exception"
              /\ UNCHANGED <<radio, stops>>
         ELSE /\ raised' = "none"
              /\ radio' = (IF isMockRadio(radio) THEN stop_fake_traffic(radio)
                           ELSE radio)
              /\ stops' = (IF stops < MaxStops THEN stops + 1 ELSE stops)

StopBody_unguarded ==
    IF nodeTask = "none"
      THEN /\ raised' = "AttributeError"
           /\ pc' = "idle"
           /\ UNCHANGED <<cancelReq, radio, stops>>
      ELSE IF AliveTask(nodeTask)
        THEN /\ cancelReq' = TRUE
             /\ pc' = "stop_await"
             /\ raised' = "none"
             /\ UNCHANGED <<radio, stops>>
        ELSE /\ cancelReq' = cancelReq
             /\ StopTail

\* "if self._node_task:" cancels and awaits the task; cancel() of a finished
\* task does nothing and awaiting it does not suspend
StopBody ==
    IF AliveTask(nodeTask)
      THEN /\ cancelReq' = TRUE
           /\ pc' = "stop_await"
           /\ raised' = "none"
           /\ UNCHANGED <<radio, stops>>
      ELSE /\ cancelReq' = cancelReq
           /\ StopTail

\* the client calls stop(); it runs to its end unless the task is still alive
Stop ==
    /\ UNCHANGED extVars
    /\ pc = "idle"
    /\ online' = FALSE
    /\ StopBody
    /\ UNCHANGED <<envVars, seedFile, seed, app, identity, event_service, node,
                   nodeTask, orphanTasks, orphanTraffic, posted, lastSend,
                   sendInvoked, histVars>>

\* stop() resumes when the awaited task has finished
StopResume ==
    /\ UNCHANGED extVars
    /\ pc = "stop_await"
    /\ FinishedTask(nodeTask)
    /\ StopTail
    /\ UNCHANGED <<envVars, seedFile, seed, app, identity, event_service, node,
                   nodeTask, cancelReq, online, orphanTasks, orphanTraffic, posted,
                   lastSend, sendInvoked, histVars>>

----------------------------------------------------------------------------
(* MeshService.send_channel_message *)

\* what the engine's send does: it returns a result that reports success,
\* one that does not, or it throws
SendOutcomes == {"success", "failure", "raise"}

send_result_propagates(o) ==
    IF o = "success" THEN "True" ELSE IF o = "raise" THEN "raised" ELSE "False"

\* result.get("success", False) inside try / except Exception: return False
send_result(o) == IF o = "success" THEN "True" ELSE "False"

\* the body of send_channel_message and of send_direct_message
SendBody ==
    IF ~node.exists
      THEN /\ lastSend' = "False"
           /\ sendInvoked' = FALSE
           /\ engineSend' = NoEngineSend
      ELSE \E o \in SendOutcomes :
             /\ lastSend' = send_result(o)
             /\ sendInvoked' = TRUE
             /\ engineSend' = [calls |-> 1, outcome |-> o]

\* send_channel_message: node.send_group_text
SendChannelMessage ==
    /\ UNCHANGED <<chanVars, contactVars, pktVars, radioVars>>
    /\ pc = "idle"
    /\ SendBody
    /\ UNCHANGED <<envVars, seedFile, pc, seed, app, identity, radio,
                   event_service, node, nodeTask, cancelReq, online, orphanTasks,
                   orphanTraffic, posted, raised, stops, histVars>>

\* send_direct_message: node.send_text
SendDirectMessage ==
    /\ UNCHANGED <<chanVars, contactVars, pktVars, radioVars>>
    /\ pc = "idle"
    /\ SendBody
    /\ UNCHANGED <<envVars, seedFile, pc, seed, app, identity, radio,
                   event_service, node, nodeTask, cancelReq, online, orphanTasks,
                   orphanTraffic, posted, raised, stops, histVars>>

----------------------------------------------------------------------------
(* The application: on_mount, onboarding, join and leave (app.py) *)

sessionVars == <<seed, app, identity, radio, event_service, node, nodeTask,
                 cancelReq, online, orphanTasks, orphanTraffic, posted, raised,
                 lastSend, sendInvoked, stops>>

\* on_mount up to the _refresh_sidebar call of on_screen_ready: without a
\* configuration file the onboarding wizard runs and on_onboarding_complete
\* writes the first one; otherwise the file is loaded
Mount ==
    /\ ~mounted
    /\ pc = "idle"
    /\ mounted' = TRUE
    /\ IF cfgFile.state = "absent"
         THEN /\ cfg' = <<ChannelEntry(Public, derive_channel_secret(Public))>>
              /\ store' = refresh_sidebar(
                             add_channel(store, Public,
                                         derive_channel_secret(Public), FALSE),
                             cfg')
              /\ cfgFile' = SavedFile(cfg')
              /\ derived' = derived \cup {Derivation(Public)}
              /\ is_mock' = is_mock
         ELSE /\ cfg' = config_load(cfgFile)
              /\ store' = refresh_sidebar(store, cfg')
              /\ is_mock' = (cfgFile.state = "saved" /\ is_mock)
              /\ UNCHANGED <<cfgFile, derived>>
    /\ UNCHANGED <<umask, pymc, seedFile, pc, sessionVars, histVars, channel_db,
                   op, contactVars, pktVars, engineSend, radioVars>>

\* on_screen_ready, after _refresh_sidebar: the application calls start(),
\* once
ScreenReady ==
    /\ app = FALSE
    /\ Start

\* what JoinChannelDialog posts for a name: the derived secret of a public
\* channel, or the key typed for a private one
JoinResults(name) ==
    {[secret |-> derive_channel_secret(name), is_private |-> FALSE]}
    \cup {[secret |-> Psk(k), is_private |-> TRUE] : k \in 1..NumPsks}

StartOp(kind, name) ==
    [kind |-> kind, name |-> name, done |-> FALSE, cfg |-> cfg,
     file |-> cfgFile, adapter |-> channel_db, task |-> nodeTask]

\* on_join_channel_result, its first statement: db.add_channel
JoinChannel ==
    /\ mounted
    /\ pc = "idle"
    /\ \E name \in ChanNames : \E res \in JoinResults(name) :
         /\ store' = add_channel(store, name, res.secret, res.is_private)
         /\ derived' = (IF res.is_private THEN derived
                        ELSE derived \cup {Derivation(name)})
         /\ op' = StartOp("join", name)
    /\ pc' = "sync_config"
    /\ UNCHANGED <<envVars, seedFile, sessionVars, histVars, mounted, cfg, cfgFile,
                   channel_db, contactVars, pktVars, engineSend, radioVars>>

\* on_leave_channel_result for the channel selected in the sidebar, its first
\* statement: db.remove_channel
LeaveChannel ==
    /\ mounted
    /\ pc = "idle"
    /\ \E row \in store :
         /\ store' = remove_channel(store, row.name)
         /\ op' = StartOp("leave", row.name)
    /\ pc' = "sync_config"
    /\ UNCHANGED <<envVars, seedFile, sessionVars, histVars, mounted, cfg, cfgFile,
                   channel_db, derived, contactVars, pktVars, engineSend, radioVars>>

\* _sync_channels_to_config: cfg_channels is built and config.set_channels
SyncConfig_raw ==
    /\ cfg' = cfg_channels_raw(store)
    /\ derived' = derived

SyncConfigBody ==
    /\ cfg' = cfg_channels(store)
    /\ derived' = derived \cup cfg_derivations(store)

SyncConfig ==
    /\ pc = "sync_config"
    /\ SyncConfigBody
    /\ pc' = "cfg_open"
    /\ UNCHANGED <<envVars, seedFile, sessionVars, histVars, mounted, store, cfgFile,
                   channel_db, op, contactVars, pktVars, engineSend, radioVars>>

\* config.save: open(config_file, "w") leaves the file empty
SaveOpen ==
    /\ pc = "cfg_open"
    /\ cfgFile' = TruncatedFile
    /\ pc' = "cfg_dump"
    /\ UNCHANGED <<envVars, seedFile, sessionVars, histVars, mounted, store, cfg,
                   channel_db, derived, op, contactVars, pktVars, engineSend, radioVars>>

\* config.save: yaml.dump writes the configuration
SaveDump ==
    /\ pc = "cfg_dump"
    /\ cfgFile' = SavedFile(cfg)
    /\ pc' = "sync_adapter"
    /\ UNCHANGED <<envVars, seedFile, sessionVars, histVars, mounted, store, cfg,
                   channel_db, derived, op, contactVars, pktVars, engineSend, radioVars>>

\* the last statement of _sync_channels_to_config, then _refresh_sidebar,
\* and the handler returns
PushAdapter_running ==
    channel_db' = (IF nodeTask = "running" THEN cfg ELSE channel_db)

PushAdapter ==
    channel_db' = (IF node.exists THEN cfg ELSE channel_db)

SyncAdapter ==
    /\ pc = "sync_adapter"
    /\ PushAdapter
    /\ store' = refresh_sidebar(store, cfg)
    /\ op' = [op EXCEPT !.done = TRUE]
    /\ pc' = "idle"
    /\ UNCHANGED <<envVars, seedFile, sessionVars, histVars, mounted, cfg, cfgFile,
                   derived, contactVars, pktVars, engineSend, radioVars>>

----------------------------------------------------------------------------
(* Packets and events of a running engine (mesh_service.py), and what the  *)
(* application does with them (app.py)                                     *)

\* the engine of this session is in its run loop and hands on what it gets
Receiving == Scheduling /\ nodeTask = "running" /\ ~cancelReq

\* on_packet for an advertisement with a full header and decodable
\* application data: nothing without a name, otherwise _ensure_contact and
\* one mesh.contact.new
HandleAdvert(public_key, name) ==
    IF name = EmptyText
      THEN UNCHANGED <<contact_db, contact_rows, posted>>
      ELSE /\ contact_db' = ensure_contact(contact_db, contact_rows,
                                           public_key, name).dir
           /\ contact_rows' = ensure_contact(contact_db, contact_rows,
                                             public_key, name).rows
           /\ posted' = Append(posted, ContactNew(public_key, name))

Advert ==
    /\ Receiving
    /\ app
    /\ Len(posted) < MaxPosted
    /\ \E k \in PublicKeys : \E n \in DisplayNames \cup {EmptyText} :
         HandleAdvert(k, n)
    /\ insert_order' = Inserted(insert_order, contact_rows')
    /\ UNCHANGED <<last_pkt, last_event, engineSend, radioVars>>
    /\ UNCHANGED <<envVars, seedFile, pc, seed, app, identity, radio,
                   event_service, node, nodeTask, cancelReq, online, orphanTasks,
                   orphanTraffic, raised, lastSend, sendInvoked, stops, histVars,
                   chanVars>>

\* the engine calls add_contact of the adapter it was given
AddContactCall(public_key, name) ==
    /\ contact_rows' = upsert_contact(contact_rows, public_key, Col(name),
                                      Col(public_key))
    /\ contact_db' = add_contact(contact_db, public_key, name)

AddContactStep(public_key, name) ==
    /\ Receiving
    /\ contact_db.exists
    /\ AddContactCall(public_key, name)
    /\ insert_order' = Inserted(insert_order, contact_rows')
    /\ UNCHANGED <<last_pkt, last_event, engineSend, radioVars>>
    /\ UNCHANGED <<envVars, seedFile, pc, seed, app, identity, radio,
                   event_service, node, nodeTask, cancelReq, online, orphanTasks,
                   orphanTraffic, posted, raised, lastSend, sendInvoked, stops,
                   histVars, chanVars>>

EngineAddContact ==
    \E k \in PublicKeys : \E n \in DisplayNames \cup {EmptyText} :
      AddContactStep(k, n)

\* the engine publishes mesh.network.node_discovered, with or without a
\* name, and the bridge posts it to the application
NodeDiscovered ==
    /\ Receiving
    /\ event_service
    /\ Len(posted) < MaxPosted
    /\ \E k \in PublicKeys : \E n \in DisplayNames \cup {EmptyText} :
         posted' = Append(posted, NodeDiscoveredEvent(k, n))
    /\ UNCHANGED <<envVars, seedFile, pc, seed, app, identity, radio,
                   event_service, node, nodeTask, cancelReq, online, orphanTasks,
                   orphanTraffic, raised, lastSend, sendInvoked, stops, histVars,
                   chanVars, contactVars, pktVars, engineSend, radioVars>>

HandleDirectMessage_front(payload_len, h) ==
    LET sender == resolve_sender(contact_db, payload_len, h)
    IN  posted' = <<MessageNew(sender.name, sender.key)>> \o posted

\* on_packet for a direct message with a text: the sender is resolved and
\* one mesh.message.new is posted
HandleDirectMessage(payload_len, h) ==
    LET sender == resolve_sender(contact_db, payload_len, h)
    IN  posted' = Append(posted, MessageNew(sender.name, sender.key))

DirectMessage ==
    /\ Receiving
    /\ app
    /\ Len(posted) < MaxPosted
    /\ \E payload_len \in {1, 2} : \E h \in Hashes :
         HandleDirectMessage(payload_len, h)
    /\ UNCHANGED <<envVars, seedFile, pc, seed, app, identity, radio,
                   event_service, node, nodeTask, cancelReq, online, orphanTasks,
                   orphanTraffic, raised, lastSend, sendInvoked, stops, histVars,
                   chanVars, contact_rows, contact_db, pktVars, engineSend, radioVars>>

handle_advert_reports(pkt) ==
    IF ~pkt.full THEN UNCHANGED <<contact_db, contact_rows, posted>>
    ELSE IF ~pkt.decodable
      THEN /\ posted' = Append(posted, SystemError("decode"))
           /\ UNCHANGED <<contact_db, contact_rows>>
    ELSE HandleAdvert(pkt.key, AdvertName(pkt))

\* MeshService._handle_advert
handle_advert(pkt) ==
    IF ~pkt.full \/ ~pkt.decodable
      THEN UNCHANGED <<contact_db, contact_rows, posted>>
      ELSE HandleAdvert(pkt.key, AdvertName(pkt))

on_packet_any_group(pkt) ==
    IF pkt.kind = "advert" THEN handle_advert(pkt)
    ELSE IF pkt.kind = "grp_txt"
      THEN /\ posted' = Append(posted, ChannelMessageNew)
           /\ UNCHANGED <<contact_db, contact_rows>>
    ELSE IF pkt.kind = "txt_msg" /\ pkt.text
      THEN /\ HandleDirectMessage(pkt.payload_len, pkt.h)
           /\ UNCHANGED <<contact_db, contact_rows>>
    ELSE UNCHANGED <<contact_db, contact_rows, posted>>

\* MeshService.on_packet: it has no await, so it runs from its first
\* statement to its last before any other task
on_packet(pkt) ==
    IF pkt.kind = "advert" THEN handle_advert(pkt)
    ELSE IF pkt.kind = "grp_txt" /\ pkt.text
      THEN /\ posted' = Append(posted, ChannelMessageNew)
           /\ UNCHANGED <<contact_db, contact_rows>>
    ELSE IF pkt.kind = "txt_msg" /\ pkt.text
      THEN /\ HandleDirectMessage(pkt.payload_len, pkt.h)
           /\ UNCHANGED <<contact_db, contact_rows>>
    ELSE UNCHANGED <<contact_db, contact_rows, posted>>

\* the dispatcher of the running engine calls the packet-received callback
OnPacket ==
    /\ Receiving
    /\ app
    /\ Len(posted) < MaxEvents
    /\ \E pkt \in Packets :
         /\ on_packet(pkt)
         /\ last_pkt' = pkt
    /\ insert_order' = Inserted(insert_order, contact_rows')
    /\ UNCHANGED <<last_event, engineSend, radioVars>>
    /\ UNCHANGED <<envVars, seedFile, pc, seed, app, identity, radio,
                   event_service, node, nodeTask, cancelReq, online, orphanTasks,
                   orphanTraffic, raised, lastSend, sendInvoked, stops, histVars,
                   chanVars>>

\* what the engine's event service publishes to its subscribers: events of
\* the two message types for the packets it has handled, and others
EngineEvents ==
    {ChannelMessageNew,
     MessageNew(DisplayName(1), PublicKey(1)),
     NodeDiscoveredEvent(PublicKey(1), DisplayName(1))}

handle_event_forwards_all(event) == posted' = Append(posted, event)

\* _TuiEventBridge.handle_event: MeshEvent(event_type, data) is posted
\* unless the type is one of _PACKET_HANDLED_EVENTS
handle_event(event) ==
    IF event.type \in PACKET_HANDLED_EVENTS
      THEN posted' = posted
      ELSE posted' = Append(posted, event)

\* the event service of the running engine calls the bridge with an event
HandleEventStep(event) ==
    /\ Receiving
    /\ event_service
    /\ app
    /\ Len(posted) < MaxEvents
    /\ handle_event(event)
    /\ last_event' = event
    /\ UNCHANGED <<envVars, seedFile, pc, seed, app, identity, radio,
                   event_service, node, nodeTask, cancelReq, online, orphanTasks,
                   orphanTraffic, raised, lastSend, sendInvoked, stops, histVars,
                   chanVars, contactVars, insert_order, last_pkt, engineSend,
                   radioVars>>

HandleEvent == \E event \in EngineEvents : HandleEventStep(event)

\* the process ends and the application is launched again: MeshCoreApp,
\* its MeshService and its ConfigManager are new objects, the files and the
\* database are as they were left
ProcessEnds ==
    /\ pc' = "idle"
    /\ seed' = [len |-> 0, val |-> None]
    /\ app' = FALSE
    /\ identity' = None
    /\ radio' = NoRadio
    /\ event_service' = FALSE
    /\ node' = NoNode
    /\ nodeTask' = "none"
    /\ cancelReq' = FALSE
    /\ online' = FALSE
    /\ orphanTasks' = 0
    /\ orphanTraffic' = 0
    /\ posted' = <<>>
    /\ raised' = "none"
    /\ lastSend' = "none"
    /\ sendInvoked' = FALSE
    /\ engineSend' = NoEngineSend
    /\ stops' = 0
    /\ starts' = 0
    /\ spawned' = 0
    /\ crashes' = 0
    /\ seedsReturned' = {}
    /\ seedWrites' = 0
    /\ reports' = {}
    /\ mounted' = FALSE
    /\ cfg' = <<>>
    /\ channel_db' = <<>>
    /\ derived' = {}
    /\ contact_db' = NoDirectory
    /\ last_pkt' = NoPacket
    /\ last_event' = NoEvent
    /\ UNCHANGED <<envVars, seedFile, store, cfgFile, contact_rows, insert_order,
                   radioVars>>

\* the application is closed and launched again
Relaunch ==
    /\ Scheduling
    /\ mounted
    /\ op' = NoOp
    /\ ProcessEnds

\* the process is killed inside a join or leave, after its write to the
\* store and before config.save has written the file, and the application
\* is launched again; op stays, as the record of the operation cut short
CrashInSync ==
    /\ pc \in {"sync_config", "cfg_open"}
    /\ op' = op
    /\ ProcessEnds

\* on_mesh_event for the MeshEvent at the head of the application's queue
HandleMeshEvent(event) ==
    IF event.type = "mesh.network.node_discovered"
      THEN contact_rows' = upsert_contact(contact_rows, event.node_id,
                                          Col(event.name), Null)
    ELSE IF event.type = "mesh.contact.new" /\ event.node_id # EmptyText
      THEN contact_rows' = upsert_contact(contact_rows, event.node_id,
                                          Col(event.name), Col(event.public_key))
    ELSE contact_rows' = contact_rows

OnMeshEvent ==
    /\ Scheduling
    /\ mounted
    /\ posted # <<>>
    /\ HandleMeshEvent(Head(posted))
    /\ insert_order' = Inserted(insert_order, contact_rows')
    /\ UNCHANGED <<last_pkt, last_event, engineSend, radioVars>>
    /\ posted' = Tail(posted)
    /\ store' = (IF Head(posted).type \in {"mesh.network.node_discovered",
                                             "mesh.contact.new"}
                   THEN refresh_sidebar(store, cfg) ELSE store)
    /\ UNCHANGED <<envVars, seedFile, pc, seed, app, identity, radio,
                   event_service, node, nodeTask, cancelReq, online, orphanTasks,
                   orphanTraffic, raised, lastSend, sendInvoked, stops, histVars,
                   mounted, cfg, cfgFile, channel_db, derived, op, contact_db>>

\* on_add_contact_result: the node id and the name typed in AddContactDialog
AddContactResult ==
    /\ Scheduling
    /\ mounted
    /\ \E node_id \in PublicKeys : \E name \in DisplayNames :
         contact_rows' = upsert_contact(contact_rows, node_id, Col(name), Null)
    /\ insert_order' = Inserted(insert_order, contact_rows')
    /\ UNCHANGED <<last_pkt, last_event, engineSend, radioVars>>
    /\ store' = refresh_sidebar(store, cfg)
    /\ UNCHANGED <<envVars, seedFile, pc, seed, app, identity, radio,
                   event_service, node, nodeTask, cancelReq, online, orphanTasks,
                   orphanTraffic, posted, raised, lastSend, sendInvoked, stops,
                   histVars, mounted, cfg, cfgFile, channel_db, derived, op,
                   contact_db>>

----------------------------------------------------------------------------
Next ==
    \/ Start
    \/ LoadOrCreateSeed
    \/ SaveSeedWrite
    \/ SaveSeedChmod
    \/ CreateIdentity
    \/ SelectRadio
    \/ StartEventService
    \/ StartNode
    \/ RunNodeBegin
    \/ RunNodeCancelled
    \/ RunNodeCrash
    \/ RunNodeReturn
    \/ OrphanCrash
    \/ OrphanReturn
    \/ TimerEnqueue
    \/ InjectRx
    \/ EngineRx
    \/ Stop
    \/ StopResume
    \/ SendChannelMessage
    \/ SendDirectMessage

Spec == Init /\ [][Next]_vars

----------------------------------------------------------------------------
(* Channel synchronisation: the application with its session, from the     *)
(* moment a process starts                                                 *)

RowsOf(entries) == bootstrap_rows({}, entries)

InitChannels ==
    /\ umask = 63
    /\ pymc = "full"
    /\ is_mock = FALSE
    /\ seedFile = [exists |-> TRUE, len |-> SeedLen, val |-> 1, mode |-> OwnerOnly]
    /\ InitSession
    /\ mounted = FALSE
    /\ cfgFile \in InitConfigs
    /\ store \in {{}, RowsOf(cfgFile.channels)}
    /\ cfg = <<>>
    /\ channel_db = <<>>
    /\ derived = {}
    /\ op = NoOp
    /\ InitContacts

NextChannels ==
    \/ Mount
    \/ ScreenReady
    \/ LoadOrCreateSeed
    \/ CreateIdentity
    \/ SelectRadio
    \/ StartEventService
    \/ StartNode
    \/ RunNodeBegin
    \/ RunNodeCancelled
    \/ RunNodeCrash
    \/ RunNodeReturn
    \/ Stop
    \/ StopResume
    \/ JoinChannel
    \/ LeaveChannel
    \/ SyncConfig
    \/ SaveOpen
    \/ SaveDump
    \/ SyncAdapter

SpecChannels == InitChannels /\ [][NextChannels]_vars

----------------------------------------------------------------------------
(* Session lifecycle: claims about stop() *)

\* the session is stopped: never started, or stop() completed since start()
Stopped == pc = "idle" /\ (starts = 0 \/ stops > 0)

\* start() has returned normally and stop() has not been called since
Started == pc = "idle" /\ starts > 0 /\ stops = 0 /\ raised = "none"

Synthetic(q) == Cardinality({i \in 1..Len(q) : q[i] = "synthetic"})

\* C1: in every reachable state, stop() called on a stopped session (never
\* started, or already stopped) raises nothing, returns at once and leaves
\* online, the radio with its traffic task, the engine handle and the
\* run-loop task exactly as they were.
C1_StopOnStoppedIsNoOp ==
    [][(Stopped /\ Stop) =>
         /\ raised' = "none"
         /\ pc' = "idle"
         /\ UNCHANGED <<online, radio, node, nodeTask, cancelReq, orphanTasks,
                        orphanTraffic>>]_vars

C1_Witness ==
    /\ stops = 2
    /\ nodeTask = "done"
    /\ isMockRadio(radio)
    /\ radio.fake_traffic
    /\ node.exists

\* C2: whenever stop() has returned, online is false, the run-loop task
\* _node_task has finished and a simulated radio has no traffic task; and
\* while the session stays stopped no synthetic packet enters its radio's
\* receive queue.
C2_StopReturnsStopped ==
    [][(pc' = "idle" /\ stops' > 0) =>
         /\ ~online'
         /\ ~AliveTask(nodeTask')
         /\ (isMockRadio(radio') => ~radio'.traffic_task)
         /\ ((pc = "idle" /\ stops > 0) =>
                Synthetic(radio'.rx) <= Synthetic(radio.rx))]_vars

C2_Witness ==
    /\ Stopped
    /\ stops = 1
    /\ nodeTask = "done"
    /\ isMockRadio(radio)
    /\ radio.fake_traffic
    /\ Synthetic(radio.rx) > 0

----------------------------------------------------------------------------
(* start() in degraded configurations *)

EngineUnavailable == pymc # "full"

IsFallback(r) == r.kind = "mock" /\ ~r.fake_traffic

\* C4: when the real radio cannot be constructed or begun, start() does not
\* raise and goes on to its next step with a begun simulated radio whose
\* traffic generation is disabled; such a radio never has a traffic task and
\* its receive queue holds injected packets only.
C4_RadioFallback ==
    [][/\ (pc = "radio" /\ ~is_mock /\ radio'.kind # "real") =>
             /\ IsFallback(radio')
             /\ radio'.running
             /\ pc' = "events"
             /\ raised' = "none"
       /\ IsFallback(radio') =>
             /\ ~radio'.traffic_task
             /\ \A i \in 1..Len(radio'.rx) : radio'.rx[i] = "injected"]_vars

C4_Witness ==
    /\ IsFallback(radio)
    /\ pc = "idle"
    /\ node.exists
    /\ node.radioGen = radio.gen
    /\ Len(radio.rx) = MaxQueue

\* C5: the lifecycle state the client reads after a start() in which the
\* fallback radio was installed differs from the one it reads after a
\* start() in which the real radio initialised, the engine step having
\* ended the same way in both.
C5_DegradedDistinguishable ==
    \A a, b \in reports :
        (a.radio = "real" /\ b.radio = "fallback" /\ a.engine = b.engine) =>
            a.online # b.online

----------------------------------------------------------------------------
(* The run loop *)

\* C6: an exception escaping the engine's run loop ends the task without an
\* exception of its own and sets online to false; a run-loop task is created,
\* and online becomes true, only by the last step of start().
C6_CrashIsContained ==
    [][/\ (crashes' # crashes) =>
             /\ ~online'
             /\ nodeTask' # "failed"
             /\ (orphanTasks' = orphanTasks => nodeTask' = "done")
             /\ spawned' = spawned
       /\ (\/ spawned' # spawned
           \/ (online' /\ ~online)
           \/ (AliveTask(nodeTask') /\ ~AliveTask(nodeTask))) => pc = "node"]_vars

C6_Witness ==
    /\ crashes = 1
    /\ spawned = 1
    /\ nodeTask = "done"
    /\ ~online
    /\ Started

\* C7: every step in which an exception escapes a run loop posts exactly
\* one system.error event to the client.
C7_CrashReportedOnce ==
    [][(crashes' # crashes) =>
         /\ Len(posted') = Len(posted) + 1
         /\ posted'[Len(posted')].type = "system.error"]_vars

----------------------------------------------------------------------------
(* The identity seed *)

CorruptSeedFile == seedFile.exists /\ seedFile.len # SeedLen

\* C8: when the seed file exists and is not 32 bytes long, start() ends with
\* an error at load_seed: no radio, node or task is created by it, online
\* and the seed file are unchanged, no event is posted and the call is over.
C8_CorruptSeedIsFatal ==
    [][(pc = "load_seed" /\ CorruptSeedFile) =>
         /\ raised' = "ValueError"
         /\ pc' = "idle"
         /\ UNCHANGED <<seedFile, identity, radio, node, nodeTask, online, spawned,
                        seedWrites, seedsReturned, posted>>]_vars

C8_Witness ==
    /\ CorruptSeedFile
    /\ raised = "ValueError"
    /\ pc = "idle"
    /\ starts = 2
    /\ radio = NoRadio

\* C9: all seeds load_or_create_seed returns are the same 32-byte seed, the
\* one the file holds; the file is written at most once, only when it was
\* absent, and the contents of an existing file never change.
C9_SeedIdempotent ==
    [][/\ Cardinality(seedsReturned') <= 1
       /\ \A s \in seedsReturned' :
             /\ s.len = SeedLen
             /\ seedFile'.exists
             /\ seedFile'.len = s.len
             /\ seedFile'.val = s.val
       /\ seedWrites' <= 1
       /\ (seedWrites' # seedWrites => ~seedFile.exists)
       /\ seedFile.exists =>
             /\ seedFile'.exists
             /\ seedFile'.len = seedFile.len
             /\ seedFile'.val = seedFile.val]_vars

C9_Witness ==
    /\ seedWrites = 1
    /\ starts = 2
    /\ pc = "identity"
    /\ seedsReturned = {seed}

\* C10: whenever the seed file is on disk holding a seed its mode is 0o600,
\* and start() reaches radio selection only with the seed persisted so.
C10_SeedOwnerOnly ==
    /\ (seedFile.exists /\ seedFile.len = SeedLen) => seedFile.mode = OwnerOnly
    /\ pc \in {"radio", "events", "node"} =>
          (seedFile.exists /\ seedFile.mode = OwnerOnly)

----------------------------------------------------------------------------
(* Contacts: a mounted application, its session and a running engine       *)

\* the contacts table a process finds: empty, or the row an advertisement
\* or a manual addition left in an earlier run
InitContactRows ==
    {<<>>}
    \cup {<<ContactRow(k, Col(n), Col(k))>> : k \in PublicKeys, n \in DisplayNames}
    \cup {<<ContactRow(k, Col(n), Null)>> : k \in PublicKeys, n \in DisplayNames}

InitContactsSpec ==
    /\ umask = 63
    /\ pymc = "full"
    /\ is_mock = TRUE
    /\ seedFile = [exists |-> TRUE, len |-> SeedLen, val |-> 1, mode |-> OwnerOnly]
    /\ InitSession
    /\ InitMounted
    /\ contact_rows \in InitContactRows
    /\ contact_db = NoDirectory
    /\ insert_order = NodeIds(contact_rows)
    /\ last_pkt = NoPacket
    /\ last_event = NoEvent

NextContacts ==
    \/ ScreenReady
    \/ LoadOrCreateSeed
    \/ CreateIdentity
    \/ SelectRadio
    \/ StartEventService
    \/ StartNode
    \/ RunNodeBegin
    \/ RunNodeCancelled
    \/ RunNodeCrash
    \/ Stop
    \/ StopResume
    \/ Advert
    \/ EngineAddContact
    \/ NodeDiscovered
    \/ DirectMessage
    \/ OnMeshEvent
    \/ AddContactResult

SpecContacts == InitContactsSpec /\ [][NextContacts]_vars

----------------------------------------------------------------------------
(* Packets: a mounted application whose engine hands packets to on_packet, *)
(* over launches of the process                                            *)

InitPackets ==
    /\ umask = 63
    /\ pymc = "full"
    /\ is_mock = TRUE
    /\ seedFile = [exists |-> TRUE, len |-> SeedLen, val |-> 1, mode |-> OwnerOnly]
    /\ InitSession
    /\ InitMounted
    /\ InitContacts

NextPackets ==
    \/ Mount
    \/ ScreenReady
    \/ LoadOrCreateSeed
    \/ CreateIdentity
    \/ SelectRadio
    \/ StartEventService
    \/ StartNode
    \/ RunNodeBegin
    \/ RunNodeCrash
    \/ OnPacket
    \/ OnMeshEvent
    \/ Relaunch

SpecPackets == InitPackets /\ [][NextPackets]_vars

----------------------------------------------------------------------------
(* The event bridge: a running engine that hands packets to on_packet and  *)
(* publishes events of its own through the event service                   *)

NextBridge ==
    \/ ScreenReady
    \/ LoadOrCreateSeed
    \/ CreateIdentity
    \/ SelectRadio
    \/ StartEventService
    \/ StartNode
    \/ RunNodeBegin
    \/ RunNodeCrash
    \/ OnPacket
    \/ HandleEvent
    \/ OnMeshEvent

SpecBridge == InitPackets /\ [][NextBridge]_vars

----------------------------------------------------------------------------
(* Joins and leaves over launches of the process, some of them cut short   *)

NextCrash ==
    \/ Mount
    \/ ScreenReady
    \/ LoadOrCreateSeed
    \/ CreateIdentity
    \/ SelectRadio
    \/ StartEventService
    \/ StartNode
    \/ RunNodeBegin
    \/ JoinChannel
    \/ LeaveChannel
    \/ SyncConfig
    \/ SaveOpen
    \/ SaveDump
    \/ SyncAdapter
    \/ CrashInSync

SpecCrash == InitPackets /\ [][NextCrash]_vars

----------------------------------------------------------------------------
(* The simulated radio on its own: a MockRadio just constructed, with or   *)
(* without traffic generation                                              *)

InitRadio ==
    /\ umask = 63
    /\ pymc = "full"
    /\ is_mock = TRUE
    /\ seedFile = AbsentFile
    /\ InitService
    /\ radio \in {MockRadio(ft, 0) : ft \in BOOLEAN}
    /\ InitRadioLogs
    /\ InitMounted
    /\ InitContacts

NextRadio ==
    \/ RadioBegin
    \/ RadioSleep
    \/ StartFakeTraffic
    \/ StopFakeTraffic
    \/ TimerPut
    \/ Inject
    \/ WaitForRxCall
    \/ WaitForRxReturn
    \/ RadioSend
    \/ RadioSendReturn

SpecRadio == InitRadio /\ [][NextRadio]_vars

----------------------------------------------------------------------------
(* Channel synchronisation *)

Pairs(entries) == {<<entries[i].name, entries[i].secret>> : i \in 1..Len(entries)}

\* the channels of the store, a missing secret read as the derived one
EffectivePairs(rows) ==
    {<<r.name, IF Truthy(r.secret) THEN r.secret
               ELSE derive_channel_secret(r.name)>> : r \in rows}

InSync == pc \in {"sync_config", "cfg_open", "cfg_dump", "sync_adapter"}
SyncCompletes == pc = "sync_adapter" /\ pc' = "idle"

C12_CrashLeavesPreOrPost ==
    InSync =>
      /\ (op.kind = "join") => (\E r \in store : r.name = op.name)
      /\ (op.kind = "leave") => ~(\E r \in store : r.name = op.name)
      /\ cfg \in {op.cfg, cfg_channels(store)}
      /\ channel_db \in {op.adapter, cfg_channels(store)}
      /\ cfgFile \in {op.file, SavedFile(cfg_channels(store))}

EngineRunning == AliveTask(nodeTask)

C14_StartUsesConfig ==
    [][(pc = "node" /\ spawned' = spawned + 1) =>
         /\ channel_db' = cfg
         /\ op.done => Pairs(channel_db') = EffectivePairs(store)]_vars

\* a channel was joined while no engine had been started, and the engine
\* created afterwards holds it
C14_Witness ==
    /\ op.done
    /\ op.kind = "join"
    /\ op.task = "none"
    /\ op.adapter = <<>>
    /\ nodeTask = "pending"
    /\ channel_db = cfg
    /\ \E i \in 1..Len(channel_db) : channel_db[i].name = op.name

\* C15: every entry of the adapter of an existing engine has a secret that is
\* neither None nor empty
C15_AdapterSecretsSet ==
    node.exists => \A i \in 1..Len(channel_db) : Truthy(channel_db[i].secret)

----------------------------------------------------------------------------
(* Contact directory and sender resolution *)

Cached == contact_db.contacts

\* the name column of the row of node_id, Null when there is no such row
StoredName(rows, node_id) ==
    IF RowIndex(rows, node_id) = 0 THEN Null
    ELSE rows[RowIndex(rows, node_id)].name

\* the name the directory holds for a key, empty when it holds none
CachedName(dir, public_key) ==
    IF Existing(dir, public_key) = 0 THEN EmptyText
    ELSE dir.contacts[Existing(dir, public_key)].name

\* the first byte of a key of hexadecimal digits
KeyFirstByte(key) == 16 * key[1] + key[2]

\* C17: in every reachable state no two entries of the in-memory contact list
\* have the same public key
C17_CacheKeysUnique ==
    \A i, j \in 1..Len(Cached) :
      i # j => Cached[i].public_key # Cached[j].public_key

\* the directory holds two contacts, and one of them was upserted again
\* after it was cached: its row carries another name
C17_Witness ==
    /\ contact_db.exists
    /\ Len(Cached) = 2
    /\ \E i \in 1..2 :
         /\ TruthyCol(StoredName(contact_rows, Cached[i].public_key))
         /\ StoredName(contact_rows, Cached[i].public_key).s # Cached[i].name

\* C18: add_contact(key, name) with a non-empty name for a key the directory
\* already holds leaves the row of the store and the entry of the directory
\* both carrying that name
C18_UpsertUpdatesBoth ==
    [][\A k \in PublicKeys : \A n \in DisplayNames :
         (AddContactStep(k, n) /\ Existing(contact_db, k) # 0) =>
           /\ StoredName(contact_rows', k) = Col(n)
           /\ CachedName(contact_db', k) = n]_vars

\* C19: no step replaces a non-empty name by an empty one, neither in a row
\* of the store nor in an entry of the directory it keeps
C19_NameNeverEmptied ==
    [][/\ \A i \in 1..Len(contact_rows) :
            TruthyCol(contact_rows[i].name) =>
              TruthyCol(StoredName(contact_rows', contact_rows[i].node_id))
       /\ (contact_db.exists /\ contact_db'.exists) =>
            \A i \in 1..Len(Cached) :
              (Cached[i].name # EmptyText
               /\ Existing(contact_db', Cached[i].public_key) # 0) =>
                CachedName(contact_db', Cached[i].public_key) # EmptyText]_vars

\* C20: a direct message whose source hash h is the first byte of the key of
\* some contact of the directory is attributed to a contact of the directory
\* whose key starts with h, and the event carries that contact's whole key
C20_ResolvesByFirstByte ==
    [][\A h \in Hashes :
         (/\ Receiving
          /\ HandleDirectMessage(2, h)
          /\ \E i \in 1..Len(Cached) :
               Cached[i].public_key # <<>> /\ KeyFirstByte(Cached[i].public_key) = h)
         => LET event == posted'[Len(posted')]
            IN  /\ event.type = "mesh.message.new"
                /\ event.sender_id # <<>>
                /\ KeyFirstByte(event.sender_id) = h
                /\ \E i \in 1..Len(Cached) :
                     /\ Cached[i].public_key = event.sender_id
                     /\ event.sender_name \in {Cached[i].name, Cached[i].public_key}]_vars

\* a direct message was attributed to the second contact of the directory,
\* the key of the first starting with another byte
C20_Witness ==
    /\ posted # <<>>
    /\ posted[Len(posted)].type = "mesh.message.new"
    /\ Len(Cached) = 2
    /\ posted[Len(posted)].sender_id = Cached[2].public_key
    /\ KeyFirstByte(Cached[1].public_key) # KeyFirstByte(Cached[2].public_key)

----------------------------------------------------------------------------
(* Packet translation *)

\* the step is a call of on_packet with the packet pkt
PacketStep(pkt) == OnPacket /\ last_pkt' = pkt

\* on_packet handles a text packet with a text and the source hash h
TextStep(h) == PacketStep(TextPacket(TRUE, 2, h))

\* the entries of the directory whose key starts with the byte h
Sharing(h) ==
    {i \in 1..Len(Cached) :
       Cached[i].public_key # <<>> /\ KeyFirstByte(Cached[i].public_key) = h}

\* the place of a node id in the order of insertion, 0 when it has no row
Rank(node_id) ==
    IF \E i \in 1..Len(insert_order) : insert_order[i] = node_id
      THEN CHOOSE i \in 1..Len(insert_order) : insert_order[i] = node_id
      ELSE 0

\* C21: a direct message whose source hash is the first key byte of two or
\* more contacts of the directory is attributed to the one of them whose
\* row was inserted first, in every launch of the process
C21_EarlierInsertedWins ==
    [][\A h \in Hashes :
         (TextStep(h) /\ Cardinality(Sharing(h)) >= 2) =>
           \E i \in Sharing(h) :
             /\ Len(posted') = Len(posted) + 1
             /\ posted'[Len(posted')].sender_id = Cached[i].public_key
             /\ \A j \in Sharing(h) :
                  Rank(Cached[i].public_key) <= Rank(Cached[j].public_key)]_vars

\* the characters the format 02X writes
UpperHexDigits == (0..9) \cup UpperLetters

\* C22: a direct message with a text whose source hash h is the first key
\* byte of no contact of the directory posts exactly one mesh.message.new,
\* its sender name "unknown-" followed by h as two capital hexadecimal
\* digits and its sender key empty, and leaves directory and store alone
C22_UnknownSender ==
    [][\A h \in Hashes :
         (TextStep(h) /\ Sharing(h) = {}) =>
           /\ \E c1, c2 \in UpperHexDigits :
                /\ 16 * HexValue(c1) + HexValue(c2) = h
                /\ posted' = Append(posted,
                                    MessageNew(<<UnknownDash, c1, c2>>, <<>>))
           /\ contact_db' = contact_db
           /\ contact_rows' = contact_rows]_vars

\* a message with source hash 0xB0 came while the directory held a contact:
\* the event says "unknown-B0"
C22_Witness ==
    /\ last_pkt = TextPacket(TRUE, 2, 176)
    /\ Len(Cached) >= 1
    /\ posted # <<>>
    /\ posted[Len(posted)] =
         MessageNew(<<UnknownDash, UpperLetter(11), 0>>, <<>>)

\* the advertisements with a full header and decodable data that announce
\* the key k under the name n
NamedAdverts(k, n) ==
    {pkt \in Packets :
       /\ pkt.kind = "advert" /\ pkt.full /\ pkt.decodable
       /\ pkt.key = k /\ AdvertName(pkt) = n}

\* C23: an advertisement with a full header and decodable data that carry
\* the non-empty name n posts exactly one mesh.contact.new with the sender's
\* key and n, and afterwards the directory holds that key under the name n
\* and the store has a row for it, whether or not the key was known
C23_AdvertAddsContact ==
    [][\A k \in Senders : \A n \in DisplayNames : \A pkt \in NamedAdverts(k, n) :
         PacketStep(pkt) =>
           /\ posted' = Append(posted, ContactNew(k, n))
           /\ contact_db'.exists
           /\ Existing(contact_db', k) # 0
           /\ CachedName(contact_db', k) = n
           /\ RowIndex(contact_rows', k) # 0
           /\ contact_rows'[RowIndex(contact_rows', k)].public_key = Col(k)]_vars

\* a key was advertised under one name and then under another: both events
\* wait for the application and the directory holds the second name
C23_Witness ==
    \E k \in Senders :
      /\ Len(posted) = 2
      /\ posted[1] = ContactNew(k, DisplayName(1))
      /\ posted[2] = ContactNew(k, DisplayName(2))
      /\ last_pkt \in NamedAdverts(k, DisplayName(2))
      /\ CachedName(contact_db, k) = DisplayName(2)

\* the advertisements short of their header, with data that do not decode,
\* or with decoded data that carry no name
DroppedAdverts ==
    {pkt \in Packets :
       /\ pkt.kind = "advert"
       /\ (~pkt.full \/ ~pkt.decodable \/ AdvertName(pkt) = EmptyText)}

\* C24: an advertisement that is short of its header, does not decode or
\* carries no name posts no event, and leaves the directory, the store and
\* the session as they were
C24_BadAdvertDropped ==
    [][\A pkt \in DroppedAdverts :
         PacketStep(pkt) =>
           /\ posted' = posted
           /\ contact_db' = contact_db
           /\ contact_rows' = contact_rows
           /\ insert_order' = insert_order
           /\ UNCHANGED <<online, node, nodeTask, cancelReq, radio, identity,
                          event_service, raised, pc>>]_vars

\* the engine runs, and the one packet it has delivered is an advertisement
\* whose data did not decode: nothing is posted and nobody is known
C24_Witness ==
    /\ last_pkt \in DroppedAdverts
    /\ last_pkt.full /\ ~last_pkt.decodable
    /\ nodeTask = "running" /\ online
    /\ posted = <<>>
    /\ contact_db.exists /\ Cached = <<>>
    /\ contact_rows = <<>>

\* the event is one on_packet posts for the packet
EventOf(pkt, event) ==
    \/ /\ pkt.kind = "advert"
       /\ event = ContactNew(pkt.key, AdvertName(pkt))
    \/ /\ pkt.kind = "txt_msg"
       /\ event.type = "mesh.message.new"
    \/ /\ pkt.kind = "grp_txt"
       /\ event = ChannelMessageNew

\* C27: a call of on_packet posts nothing or exactly one event, the event
\* of the packet it was called with, behind every event posted for the
\* packets delivered before; and no other step reorders the events that
\* wait: it takes the first, or the process ends and all are gone
C27_EventsInPacketOrder ==
    [][/\ OnPacket =>
            \/ posted' = posted
            \/ /\ Len(posted') = Len(posted) + 1
               /\ SubSeq(posted', 1, Len(posted)) = posted
               /\ EventOf(last_pkt', posted'[Len(posted')])
       /\ (~OnPacket /\ posted' # posted) =>
            \/ posted # <<>> /\ posted' = Tail(posted)
            \/ posted' = <<>>
            \/ /\ Len(posted') = Len(posted) + 1
               /\ SubSeq(posted', 1, Len(posted)) = posted
               /\ posted'[Len(posted')].type = "system.error"]_vars

\* an advertisement and then a direct message from the advertised key were
\* delivered; both events wait, in that order, and the message carries the
\* name the advertisement gave
C27_Witness ==
    /\ Len(posted) = 2
    /\ posted[1].type = "mesh.contact.new"
    /\ posted[2].type = "mesh.message.new"
    /\ last_pkt.kind = "txt_msg"
    /\ posted[2].sender_id = posted[1].public_key
    /\ posted[2].sender_name = posted[1].name

----------------------------------------------------------------------------
(* Sending and startup failures *)

\* the step is a call of send_channel_message or of send_direct_message
SendStep == SendChannelMessage \/ SendDirectMessage

\* C25: a send_* call returns False or True and raises nothing; without an
\* engine it returns False and calls nothing; with one it calls the engine's
\* send once, returns True exactly when that call reported success, False
\* when it reported none or threw; and it leaves the session as it was
C25_SendNeverRaises ==
    [][SendStep =>
         /\ lastSend' \in {"True", "False"}
         /\ engineSend'.calls <= 1
         /\ ~node.exists => (lastSend' = "False" /\ engineSend'.calls = 0)
         /\ node.exists => engineSend'.calls = 1
         /\ lastSend' = "True" <=> engineSend'.outcome = "success"
         /\ UNCHANGED <<online, node, nodeTask, cancelReq, radio, identity,
                        event_service, app, posted, raised, pc>>]_vars

\* the engine's send threw: the call returned False, the session is online
\* as before and no exception reached the caller
C25_Witness ==
    /\ lastSend = "False"
    /\ engineSend = [calls |-> 1, outcome |-> "raise"]
    /\ node.exists /\ online /\ nodeTask = "running"
    /\ raised = "none"
    /\ pc = "idle"

\* the number of system.error events posted for a cause
Errors(cause) ==
    Cardinality({i \in 1..Len(posted) : posted[i] = SystemError(cause)})

\* the first start() is over and its engine could not be constructed
NodeFailed == \E on \in BOOLEAN : Report("error", on) \in reports

\* C26: when the first start() is over, each structural failure it met, a
\* corrupt seed file, a real radio that could not be initialised, an engine
\* that could not be constructed, has exactly one system.error event
C26_StartupFailureReported ==
    (pc = "idle" /\ starts = 1) =>
      /\ (raised = "ValueError" /\ CorruptSeedFile) => Errors("seed") = 1
      /\ IsFallback(radio) => Errors("radio") = 1
      /\ NodeFailed => Errors("node") = 1

----------------------------------------------------------------------------
(* The simulated radio *)

\* C28: the receive queue has a capacity: however many packets are put
\* with no wait_for_rx in between, the queue never holds as many as the
\* MaxPuts puts made here
C28_QueueBounded == Len(radio.rx) < MaxPuts

\* the packets among what wait_for_rx returned
RECURSIVE Data(_)
Data(got) ==
    IF got = <<>> THEN <<>>
    ELSE (IF Head(got) = NoData THEN <<>> ELSE <<Head(got)>>) \o Data(Tail(got))

\* C29: the packets wait_for_rx has returned, followed by those still in
\* the queue, are the packets put, in the order they were put; and a call
\* made on a running radio returns only when the queue is not empty, with
\* the packet at its head
C29_RxFifo ==
    /\ [](Data(rx_got) \o radio.rx = enqueued)
    /\ [][(rx_got' # rx_got /\ rx_wait = "get") =>
            /\ radio.rx # <<>>
            /\ rx_got' = Append(rx_got, Head(radio.rx))
            /\ radio'.rx = Tail(radio.rx)]_vars

\* two different packets were put and returned, in the order they were put,
\* and the next call is suspended on the empty queue
C29_Witness ==
    /\ radio.running
    /\ Len(enqueued) = 2 /\ enqueued[1] # enqueued[2]
    /\ rx_got = enqueued
    /\ radio.rx = <<>>
    /\ rx_wait = "get"

\* C30: in every state of the radio send(data) appends data once to the
\* transmit log, puts nothing into the receive queue and changes nothing
\* else of the radio, and it returns the acknowledgement after its sleep
C30_SendLogsOnce ==
    [][/\ \A d \in Payloads :
            RadioSendData(d) =>
              /\ tx_log' = Append(tx_log, d)
              /\ radio' = radio
              /\ enqueued' = enqueued
       /\ RadioSendReturn =>
            /\ tx_call' = "ok"
            /\ tx_log' = tx_log
            /\ radio' = radio
            /\ enqueued' = enqueued]_vars

\* two packets were sent on a radio that was never begun: both are in the
\* log, the last call has returned, and nothing was ever put into the queue
C30_Witness ==
    /\ ~radio.running /\ ~radio.traffic_task
    /\ Len(tx_log) = 2
    /\ tx_call = "ok"
    /\ enqueued = <<>>
    /\ radio.rx = <<>>

----------------------------------------------------------------------------
(* Background tasks *)

\* the run-loop tasks that are alive: the one _node_task refers to and those
\* an earlier start() created and nothing refers to any more
RunLoopTasks == (IF AliveTask(nodeTask) THEN 1 ELSE 0) + orphanTasks

\* the traffic tasks that are alive: that of the radio in use and those of
\* the radios an earlier start() created
TrafficTasks == (IF radio.traffic_task THEN 1 ELSE 0) + orphanTraffic

\* C31: whatever start() and stop() calls were made, at most one run-loop
\* task and at most one traffic task are alive
C31_AtMostOneTask == RunLoopTasks <= 1 /\ TrafficTasks <= 1

----------------------------------------------------------------------------
(* Termination of stop() *)

\* the event loop runs every task that is ready: a task whose cancellation
\* was requested gets its next step, in which an engine that observes the
\* cancellation lets CancelledError reach _run_node, and a stop() whose
\* awaited task has finished is resumed
SpecStop ==
    /\ Init
    /\ [][Next]_vars
    /\ WF_vars(RunNodeBegin)
    /\ WF_vars(RunNodeCancelled)
    /\ WF_vars(StopResume)

\* C32: a stop() suspended at "await self._node_task" returns
C32_StopReturns == (pc = "stop_await") ~> (pc = "idle" /\ stops > 0)

\* stop() has returned after it waited: the task it cancelled and awaited
\* ended by the cancellation, which only a suspended stop() brings about
C32_Witness ==
    /\ pc = "idle"
    /\ stops > 0
    /\ raised = "none"
    /\ nodeTask = "cancelled"
    /\ ~online

----------------------------------------------------------------------------
(* Classification of packets *)

\* the type of the event on_packet posts for a payload type
EventType(kind) ==
    CASE kind = "advert" -> "mesh.contact.new"
      [] kind = "grp_txt" -> "mesh.channel.message.new"
      [] kind = "txt_msg" -> "mesh.message.new"
      [] OTHER -> "none"

\* packets of another payload type, group texts without decrypted data and
\* texts without a decrypted text
IgnoredPackets ==
    {pkt \in Packets :
       \/ pkt.kind \notin {"advert", "grp_txt", "txt_msg"}
       \/ pkt.kind \in {"grp_txt", "txt_msg"} /\ ~pkt.text}

\* C33: a call of on_packet posts at most one event, of the type that goes
\* with the packet's payload type, behind the events that wait; for a packet
\* of another payload type, a group text without decrypted data or a text
\* without a decrypted text it posts none and changes nothing
C33_OneEventOfItsType ==
    [][\A pkt \in Packets :
         PacketStep(pkt) =>
           /\ \/ posted' = posted
              \/ /\ Len(posted') = Len(posted) + 1
                 /\ SubSeq(posted', 1, Len(posted)) = posted
                 /\ posted'[Len(posted')].type = EventType(pkt.kind)
           /\ pkt \in IgnoredPackets =>
                /\ posted' = posted
                /\ UNCHANGED <<contact_db, contact_rows, insert_order, online,
                               node, nodeTask, cancelReq, radio, identity,
                               event_service, channel_db, store, cfg, raised,
                               pc>>]_vars

\* a group text with its data was delivered and then one without: the first
\* has its channel message waiting, the second left nothing
C33_Witness ==
    /\ last_pkt = GroupPacket(FALSE)
    /\ posted = <<ChannelMessageNew>>
    /\ nodeTask = "running"

----------------------------------------------------------------------------
(* The event bridge *)

\* the events of the two message types among those that wait
Messages(q) == {i \in 1..Len(q) : q[i].type \in PACKET_HANDLED_EVENTS}

\* text and group-text packets that carry decrypted data
MessagePackets ==
    {pkt \in Packets : pkt.kind \in {"grp_txt", "txt_msg"} /\ pkt.text}

\* C34: the bridge posts nothing for an engine event of one of the two
\* message types and posts every other engine event as it is; on_packet
\* posts exactly one message event for a message packet; so the message
\* events that wait grow only by a call of on_packet, by one
C34_MessageOnce ==
    [][/\ HandleEvent =>
            IF last_event'.type \in {"mesh.message.new", "mesh.channel.message.new"}
              THEN posted' = posted
              ELSE posted' = Append(posted, last_event')
       /\ (OnPacket /\ last_pkt' \in MessagePackets) =>
            /\ Len(posted') = Len(posted) + 1
            /\ posted'[Len(posted')].type = EventType(last_pkt'.kind)
       /\ Cardinality(Messages(posted')) > Cardinality(Messages(posted)) =>
            /\ OnPacket
            /\ last_pkt' \in MessagePackets
            /\ Cardinality(Messages(posted')) = Cardinality(Messages(posted)) + 1]_vars

\* a text packet was delivered and the engine then published its own
\* mesh.message.new: one message event waits; and a node-discovered event
\* published before was forwarded
C34_Witness ==
    /\ last_pkt.kind = "txt_msg" /\ last_pkt.text
    /\ last_event.type = "mesh.message.new"
    /\ Len(posted) = 2
    /\ posted[1].type = "mesh.network.node_discovered"
    /\ posted[2].type = "mesh.message.new"

----------------------------------------------------------------------------
(* Channel names *)

\* no two entries of a channel list have the same name
UniqueNames(entries) ==
    \A i, j \in 1..Len(entries) : entries[i].name = entries[j].name => i = j

\* C35: a join of a name the store already has leaves the store as it is,
\* a join of a new name adds one row and touches no other, and the rest of
\* the handler does not write the table; and at every moment no two rows of
\* the store, entries of the configuration or channels of the adapter have
\* the same name
C35_ExistingRowWins ==
    /\ [](/\ \A r, q \in store : r.name = q.name => r = q
          /\ UniqueNames(cfg)
          /\ UniqueNames(channel_db))
    /\ [][JoinChannel =>
            IF \E r \in store : r.name = op'.name
              THEN store' = store
              ELSE \E r \in store' : r.name = op'.name /\ store' = store \cup {r}]_vars
    /\ [][(InSync /\ op.kind = "join") => store' = store]_vars

\* a join of a name that was already held as a private channel has
\* returned with an engine present: the row is still the private one, and
\* configuration and adapter hold the name once
C35_Witness ==
    /\ pc = "idle"
    /\ op.kind = "join" /\ op.done
    /\ \E i \in 1..Len(op.cfg) : op.cfg[i].name = op.name
    /\ \E r \in store : r.name = op.name /\ r.is_private /\ r.secret = Psk(1)
    /\ node.exists
    /\ channel_db = cfg
    /\ Cardinality({i \in 1..Len(cfg) : cfg[i].name = op.name}) = 1

----------------------------------------------------------------------------
(* Start after a crash *)

\* the names of a channel list
NamesOf(entries) == {entries[i].name : i \in 1..Len(entries)}

\* the last join or leave of the previous process was cut short
CutShort == op.kind # "none" /\ ~op.done

\* C36: when the previous process was killed between the store write of a
\* join or leave and the saving of the configuration, the adapter the next
\* start() gives its engine holds exactly the channels of the store
C36_StoreDecidesAfterCrash ==
    [][(StartNode /\ node'.exists /\ CutShort) =>
         NamesOf(channel_db') = {r.name : r \in store}]_vars

----------------------------------------------------------------------------
(* The online flag *)

\* C37: while online is true the session has an engine and a run-loop task
\* that has not ended
C37_OnlineMeansRunning == online => (node.exists /\ AliveTask(nodeTask))

----------------------------------------------------------------------------
(* Sending after stop() *)

\* a stop() has completed since the last start(), or the run loop of the
\* last start() has ended and left the session offline
AfterStopOrCrash ==
    /\ pc = "idle"
    /\ starts > 0
    /\ ~online
    /\ (stops > 0 \/ FinishedTask(nodeTask))

\* C38: a send_* call made after a stop() or after a crash of the run loop
\* returns False and does not call the engine's send
C38_NoSendWhenStopped ==
    [][(SendStep /\ AfterStopOrCrash) =>
         (lastSend' = "False" /\ engineSend'.calls = 0)]_vars

----------------------------------------------------------------------------
(* Directory and store *)

\* the row agrees with the contact: the same key, and the contact's name is
\* the row's name, or the row's node id when the row has no name
RowOf(row, c) ==
    /\ row.public_key = Col(c.public_key)
    /\ \/ row.name = Col(c.name)
       \/ ~TruthyCol(row.name) /\ c.name = row.node_id

\* C39: every contact of the directory has a row in the store with its key
\* and its name
C39_CacheMatchesStore ==
    \A i \in 1..Len(Cached) :
      \E j \in 1..Len(contact_rows) : RowOf(contact_rows[j], Cached[i])

====
